---- MODULE Spec2Model ----
(***************************************************************************)
(* Model of stk::io::util::GeneratedMesh                                   *)
(* (packages/stk/stk_util/stk_util/unit_test_support/GeneratedMesh.cpp).   *)
(*                                                                         *)
(* One GeneratedMesh instance exists per rank (SPMD): mesh[r] is the       *)
(* instance of rank r.  Every rank runs the same program text, so a        *)
(* constructor or mutator call is applied to the instance of every rank;   *)
(* a generator call is made on one rank and fills a fresh output vector.   *)
(*                                                                         *)
(* Interval counts, ranks and IDs are non-negative and small within the    *)
(* bounds below, so the size_t and int arithmetic of the source is plain   *)
(* integer arithmetic here; scales and offsets take integer values.        *)
(*                                                                         *)
(* Double values are modelled by exact integers.  Rotation angles are      *)
(* multiples of 90 degrees and their cosine and sine are the exact values  *)
(* 0, 1 and -1; the source computes them in double precision, where        *)
(* cos(90 deg) is about 6e-17, so equalities between rotated values stand  *)
(* for equalities within that rounding.  Divisions (set_bbox) are defined  *)
(* only where they are exact.                                              *)
(***************************************************************************)
EXTENDS Integers, Sequences, FiniteSets, TLC

VARIABLES mesh, args, out

vars == <<mesh, args, out>>

(***************************************************************************)
(* Bounds of the model.                                                    *)
(***************************************************************************)
MaxProc == 3
MaxXY == 2
MaxZ == 3
MaxZd == 2
MaxShell == 2
MaxGroups == 2

(***************************************************************************)
(* Generic sequence helpers (std::vector semantics).                       *)
(***************************************************************************)
RECURSIVE Concat(_)
Concat(ss) == IF Len(ss) = 0 THEN <<>> ELSE Head(ss) \o Concat(Tail(ss))

RECURSIVE SumSeq(_)
SumSeq(s) == IF Len(s) = 0 THEN 0 ELSE Head(s) + SumSeq(Tail(s))

\* v.resize(n) on a fresh vector followed by the writes w[1..Len(w)] at
\* positions 0..Len(w)-1: unwritten entries keep the value-initialised 0.
Resized(n, w) == [k \in 1..n |-> IF k <= Len(w) THEN w[k] ELSE 0]

(***************************************************************************)
(* std::strtol(token, NULL, 10) on a token given as a sequence of          *)
(* one-character strings: optional sign, then the longest digit prefix.    *)
(***************************************************************************)
Digits == <<"0", "1", "2", "3", "4", "5", "6", "7", "8", "9">>

IsDigit(c) == \E d \in 1..Len(Digits) : Digits[d] = c

DigitVal(c) == (CHOOSE d \in 1..Len(Digits) : Digits[d] = c) - 1

RECURSIVE strtolDigits(_, _, _)
strtolDigits(s, i, acc) ==
  IF i > Len(s) \/ ~IsDigit(s[i]) THEN acc
  ELSE strtolDigits(s, i + 1, acc * 10 + DigitVal(s[i]))

strtol(s) ==
  IF Len(s) >= 1 /\ s[1] = "-" THEN 0 - strtolDigits(s, 2, 0)
  ELSE IF Len(s) >= 1 /\ s[1] = "+" THEN strtolDigits(s, 2, 0)
  ELSE strtolDigits(s, 1, 0)

\* The decimal token of a natural number below 100 (an input of the model).
Tok(n) == IF n < 10 THEN <<Digits[n + 1]>>
          ELSE <<Digits[(n \div 10) + 1], Digits[(n % 10) + 1]>>

(***************************************************************************)
(* enum ShellLocation and the option characters naming them.               *)
(***************************************************************************)
ShellLocation == {"MX", "PX", "MY", "PY", "MZ", "PZ"}

Identity3 == <<<<1, 0, 0>>, <<0, 1, 0>>, <<0, 0, 1>>>>

(***************************************************************************)
(* Constructors and initialize().                                          *)
(***************************************************************************)
\* Member-initialiser list of the (int,int,int,int,int) constructor.
MemberInit(num_x, num_y, num_z, my_num_z, proc_count, my_proc) ==
  [status |-> "ok",
   numX |-> num_x, numY |-> num_y, numZ |-> num_z,
   myNumZ |-> my_num_z, myStartZ |-> 0,
   processorCount |-> proc_count, myProcessor |-> my_proc,
   offX |-> 0, offY |-> 0, offZ |-> 0,
   sclX |-> 1, sclY |-> 1, sclZ |-> 1,
   doRotation |-> FALSE,
   rotmat |-> Identity3,
   shellBlocks |-> <<>>]

\* A failed assert() ends the rank's construction.
Abort(g) == [g EXCEPT !.status = "aborted"]

\* initialize() without the remainder term in myStartZ.
initialize_NoExtra(g) ==
  IF ~(g.numZ >= g.processorCount) THEN Abort(g)
  ELSE
    LET P == g.processorCount
        nz0 == g.numZ \div P
        nz == IF g.myProcessor < (g.numZ % P) THEN nz0 + 1 ELSE nz0
        per_proc == g.numZ \div P
        gp == IF P > 1
              THEN [g EXCEPT !.myNumZ = nz,
                             !.myStartZ = g.myProcessor * per_proc]
              ELSE [g EXCEPT !.myNumZ = g.numZ]
    IN [gp EXCEPT !.rotmat = Identity3]

\* initialize() handing the extra interval to the last ranks instead of the first.
initialize_ExtraLast(g) ==
  IF ~(g.numZ >= g.processorCount) THEN Abort(g)
  ELSE
    LET P == g.processorCount
        rem == g.numZ % P
        nz0 == g.numZ \div P
        nz == IF g.myProcessor >= P - rem THEN nz0 + 1 ELSE nz0
        before == IF g.myProcessor > P - rem THEN g.myProcessor - (P - rem) ELSE 0
        gp == IF P > 1
              THEN [g EXCEPT !.myNumZ = nz,
                             !.myStartZ = g.myProcessor * nz0 + before]
              ELSE [g EXCEPT !.myNumZ = g.numZ]
    IN [gp EXCEPT !.rotmat = Identity3]

initialize(g) ==
  IF ~(g.numZ >= g.processorCount) THEN Abort(g)
  ELSE
    LET P == g.processorCount
        nz0 == g.numZ \div P
        nz == IF g.myProcessor < (g.numZ % P) THEN nz0 + 1 ELSE nz0
        extra0 == g.numZ % P
        extra == IF extra0 > g.myProcessor THEN g.myProcessor ELSE extra0
        per_proc == g.numZ \div P
        gp == IF P > 1
              THEN [g EXCEPT !.myNumZ = nz,
                             !.myStartZ = g.myProcessor * per_proc + extra]
              ELSE [g EXCEPT !.myNumZ = g.numZ]
    IN [gp EXCEPT !.rotmat = Identity3]

add_shell_block(g, loc) == [g EXCEPT !.shellBlocks = Append(@, loc)]

\* The switch with both cases of a letter naming the minus face.
ShellChar_IgnoreCase(g, c) ==
  CASE c = "x" \/ c = "X" -> add_shell_block(g, "MX")
    [] c = "y" \/ c = "Y" -> add_shell_block(g, "MY")
    [] c = "z" \/ c = "Z" -> add_shell_block(g, "MZ")
    [] OTHER -> g

\* The switch over option[1][j] of the "shell" option.
ShellChar(g, c) ==
  CASE c = "x" -> add_shell_block(g, "MX")
    [] c = "X" -> add_shell_block(g, "PX")
    [] c = "y" -> add_shell_block(g, "MY")
    [] c = "Y" -> add_shell_block(g, "PY")
    [] c = "z" -> add_shell_block(g, "MZ")
    [] c = "Z" -> add_shell_block(g, "PZ")
    [] OTHER -> g

RECURSIVE ShellOption(_, _, _)
ShellOption(g, arg, j) ==
  IF j > Len(arg) THEN g ELSE ShellOption(ShellChar(g, arg[j]), arg, j + 1)

\* The "zdecomp" option with the prefix sum running one rank too far.
ZdecompOption_PrefixOffByOne(g, tokens) ==
  IF Len(tokens) # g.processorCount THEN Abort(g)
  ELSE
    LET Zs == [j \in 1..g.processorCount |-> strtol(tokens[j])]
    IN [g EXCEPT !.numZ = SumSeq(Zs),
                 !.myNumZ = Zs[g.myProcessor + 1],
                 !.myStartZ = SumSeq(SubSeq(Zs, 1, g.myProcessor + 1))]

\* The "zdecomp" option; tokens are the comma-separated tokens of option[1].
ZdecompOption(g, tokens) ==
  IF Len(tokens) # g.processorCount THEN Abort(g)
  ELSE
    LET Zs == [j \in 1..g.processorCount |-> strtol(tokens[j])]
    IN [g EXCEPT !.numZ = SumSeq(Zs),
                 !.myNumZ = Zs[g.myProcessor + 1],
                 !.myStartZ = SumSeq(SubSeq(Zs, 1, g.myProcessor))]

(***************************************************************************)
(* Mutators: set_scale, set_offset, set_bbox, set_rotation.                *)
(***************************************************************************)
\* std::strtod on a token without fraction or exponent: the integer it spells.
strtod(s) == strtol(s)

\* a / b in double, for the operands whose quotient is exact.
DblDiv(a, b) == CASE b # 0 /\ a % b = 0 -> a \div b

set_scale(g, scl_x, scl_y, scl_z) ==
  [g EXCEPT !.sclX = scl_x, !.sclY = scl_y, !.sclZ = scl_z]

set_offset(g, off_x, off_y, off_z) ==
  [g EXCEPT !.offX = off_x, !.offY = off_y, !.offZ = off_z]

\* set_bbox leaving the offsets as they were.
set_bbox_KeepOffset(g, xmin, ymin, zmin, xmax, ymax, zmax) ==
  [g EXCEPT !.sclX = DblDiv(xmax - xmin, g.numX),
            !.sclY = DblDiv(ymax - ymin, g.numY),
            !.sclZ = DblDiv(zmax - zmin, g.numZ)]

set_bbox(g, xmin, ymin, zmin, xmax, ymax, zmax) ==
  LET x_range == xmax - xmin
      y_range == ymax - ymin
      z_range == zmax - zmin
  IN [g EXCEPT !.sclX = DblDiv(x_range, g.numX),
               !.sclY = DblDiv(y_range, g.numY),
               !.sclZ = DblDiv(z_range, g.numZ),
               !.offX = xmin, !.offY = ymin, !.offZ = zmin]

\* The cosine table shifted by a quarter turn.
CosDeg_Shifted(d) == CASE d % 360 = 0 -> 0
                       [] d % 360 = 90 -> -1
                       [] d % 360 = 180 -> 0
                       [] d % 360 = 270 -> 1

\* std::cos and std::sin of angle_degrees * degang for multiples of 90 degrees.
CosDeg(d) == CASE d % 360 = 0 -> 1
               [] d % 360 = 90 -> 0
               [] d % 360 = 180 -> -1
               [] d % 360 = 270 -> 0

SinDeg(d) == CASE d % 360 = 0 -> 0
               [] d % 360 = 90 -> 1
               [] d % 360 = 180 -> 0
               [] d % 360 = 270 -> -1

\* The index triples with n1 and n2 exchanged.
AxisIndexes_LeftHanded(axis) ==
  IF axis = <<"x">> \/ axis = <<"X">> THEN <<2, 1, 0>>
  ELSE IF axis = <<"y">> \/ axis = <<"Y">> THEN <<0, 2, 1>>
  ELSE IF axis = <<"z">> \/ axis = <<"Z">> THEN <<1, 0, 2>>
  ELSE <<>>

\* The index triple (n1, n2, n3) of an axis string, 0-based as in the source;
\* <<>> for an invalid axis.  An axis is a token: a sequence of characters.
AxisIndexes(axis) ==
  IF axis = <<"x">> \/ axis = <<"X">> THEN <<1, 2, 0>>
  ELSE IF axis = <<"y">> \/ axis = <<"Y">> THEN <<2, 0, 1>>
  ELSE IF axis = <<"z">> \/ axis = <<"Z">> THEN <<0, 1, 2>>
  ELSE <<>>

\* The elementary rotation without the unit entry on the axis.
ElementaryRotation_NoUnit(n, cosang, sinang) ==
  LET n1 == n[1]
      n2 == n[2]
  IN [i \in 1..3 |-> [j \in 1..3 |->
       LET a == i - 1
           b == j - 1
       IN CASE a = n1 /\ b = n1 -> cosang
            [] a = n2 /\ b = n1 -> 0 - sinang
            [] a = n1 /\ b = n2 -> sinang
            [] a = n2 /\ b = n2 -> cosang
            [] OTHER -> 0]]

\* The elementary rotation with the same sign on both sine entries.
ElementaryRotation_SameSign(n, cosang, sinang) ==
  LET n1 == n[1]
      n2 == n[2]
      n3 == n[3]
  IN [i \in 1..3 |-> [j \in 1..3 |->
       LET a == i - 1
           b == j - 1
       IN CASE a = n1 /\ b = n1 -> cosang
            [] a = n2 /\ b = n1 -> sinang
            [] a = n1 /\ b = n2 -> sinang
            [] a = n2 /\ b = n2 -> cosang
            [] a = n3 /\ b = n3 -> 1
            [] OTHER -> 0]]

\* The elementary rotation by[3][3] built by set_rotation.
ElementaryRotation(n, cosang, sinang) ==
  LET n1 == n[1]
      n2 == n[2]
      n3 == n[3]
  IN [i \in 1..3 |-> [j \in 1..3 |->
       LET a == i - 1
           b == j - 1
       IN CASE a = n1 /\ b = n1 -> cosang
            [] a = n2 /\ b = n1 -> 0 - sinang
            [] a = n1 /\ b = n3 -> 0
            [] a = n1 /\ b = n2 -> sinang
            [] a = n2 /\ b = n2 -> cosang
            [] a = n2 /\ b = n3 -> 0
            [] a = n3 /\ b = n1 -> 0
            [] a = n3 /\ b = n2 -> 0
            [] a = n3 /\ b = n3 -> 1]]

\* The product taken in the other order, by . rotmat.
MatMul_Reversed(rotmat, by) ==
  [i \in 1..3 |-> [j \in 1..3 |->
     by[i][1] * rotmat[1][j] + by[i][2] * rotmat[2][j] + by[i][3] * rotmat[3][j]]]

\* res[i][j] = rotmat[i][0]*by[0][j] + rotmat[i][1]*by[1][j] + rotmat[i][2]*by[2][j]
MatMul(rotmat, by) ==
  [i \in 1..3 |-> [j \in 1..3 |->
     rotmat[i][1] * by[1][j] + rotmat[i][2] * by[2][j] + rotmat[i][3] * by[3][j]]]

set_rotation(g, axis, angle_degrees) ==
  LET g1 == [g EXCEPT !.doRotation = TRUE]
      n == AxisIndexes(axis)
  IN IF n = <<>> THEN g1
     ELSE LET by == ElementaryRotation(n, CosDeg(angle_degrees), SinDeg(angle_degrees))
          IN [g1 EXCEPT !.rotmat = MatMul(g.rotmat, by)]

(***************************************************************************)
(* parse_options.                                                          *)
(***************************************************************************)
\* The "scale" option accepting more than three tokens.
ScaleOption_AtLeastThree(g, tokens) ==
  IF Len(tokens) < 3 THEN Abort(g)
  ELSE [g EXCEPT !.sclX = strtod(tokens[1]),
                 !.sclY = strtod(tokens[2]),
                 !.sclZ = strtod(tokens[3])]

\* The "scale" option.
ScaleOption(g, tokens) ==
  IF Len(tokens) # 3 THEN Abort(g)
  ELSE [g EXCEPT !.sclX = strtod(tokens[1]),
                 !.sclY = strtod(tokens[2]),
                 !.sclZ = strtod(tokens[3])]

\* The "offset" option.
OffsetOption(g, tokens) ==
  IF Len(tokens) # 3 THEN Abort(g)
  ELSE [g EXCEPT !.offX = strtod(tokens[1]),
                 !.offY = strtod(tokens[2]),
                 !.offZ = strtod(tokens[3])]

\* The "bbox" option.
BboxOption(g, tokens) ==
  IF Len(tokens) # 6 THEN Abort(g)
  ELSE set_bbox(g, strtod(tokens[1]), strtod(tokens[2]), strtod(tokens[3]),
                   strtod(tokens[4]), strtod(tokens[5]), strtod(tokens[6]))

\* The loop over the axis, angle pairs of the "rotate" option.
RECURSIVE RotatePairs(_, _, _)
RotatePairs(g, tokens, ir) ==
  IF ir > Len(tokens) THEN g
  ELSE RotatePairs(set_rotation(g, tokens[ir], strtod(tokens[ir + 1])),
                   tokens, ir + 2)

\* The "rotate" option.
RotateOption(g, tokens) ==
  IF Len(tokens) % 2 # 0 THEN Abort(g)
  ELSE RotatePairs(g, tokens, 1)

\* The keys parse_options recognises.
OptionKeys == {"shell", "scale", "offset", "zdecomp", "bbox", "rotate", "help", "show"}

\* The loop body with an unrecognized key treated as a failure.
ParseOption_UnknownAborts(g, option) ==
  CASE option.key = "shell" -> ShellOption(g, option.arg[1], 1)
    [] option.key = "scale" -> ScaleOption(g, option.arg)
    [] option.key = "offset" -> OffsetOption(g, option.arg)
    [] option.key = "zdecomp" -> ZdecompOption(g, option.arg)
    [] option.key = "bbox" -> BboxOption(g, option.arg)
    [] option.key = "rotate" -> RotateOption(g, option.arg)
    [] option.key = "help" -> g
    [] option.key = "show" -> g
    [] option.key \notin OptionKeys -> Abort(g)

\* One iteration of the loop over groups in parse_options.  option.arg holds
\* the comma-separated tokens of option[1]; a shell argument is one token.
ParseOption(g, option) ==
  CASE option.key = "shell" -> ShellOption(g, option.arg[1], 1)
    [] option.key = "scale" -> ScaleOption(g, option.arg)
    [] option.key = "offset" -> OffsetOption(g, option.arg)
    [] option.key = "zdecomp" -> ZdecompOption(g, option.arg)
    [] option.key = "bbox" -> BboxOption(g, option.arg)
    [] option.key = "rotate" -> RotateOption(g, option.arg)
    [] option.key = "help" -> g
    [] option.key = "show" -> g
    [] option.key \notin OptionKeys -> g

\* The option groups taken from the last one to the first.
RECURSIVE parse_options_RightToLeft(_, _, _)
parse_options_RightToLeft(g, groups, i) ==
  IF i > Len(groups) \/ g.status # "ok" THEN g
  ELSE parse_options_RightToLeft(
         ParseOption(g, groups[Len(groups) + 1 - i]), groups, i + 1)

RECURSIVE parse_options(_, _, _)
parse_options(g, groups, i) ==
  IF i > Len(groups) \/ g.status # "ok" THEN g
  ELSE parse_options(ParseOption(g, groups[i]), groups, i + 1)

\* GeneratedMesh(int num_x, int num_y, int num_z, int proc_count, int my_proc)
GeneratedMeshInts(num_x, num_y, num_z, proc_count, my_proc) ==
  initialize(MemberInit(num_x, num_y, num_z, num_z, proc_count, my_proc))

\* GeneratedMesh(const std::string &parameters, int proc_count, int my_proc);
\* parameters.intervals are the tokens of groups[0], parameters.options the
\* remaining groups split at ":".
GeneratedMeshStr(parameters, proc_count, my_proc) ==
  LET g0 == MemberInit(0, 0, 0, 0, proc_count, my_proc)
      tokens == parameters.intervals
  IN IF Len(tokens) # 3 THEN Abort(g0)
     ELSE LET g1 == [g0 EXCEPT !.numX = strtol(tokens[1]),
                               !.numY = strtol(tokens[2]),
                               !.numZ = strtol(tokens[3])]
              g2 == initialize(g1)
          IN parse_options(g2, parameters.options, 1)

(***************************************************************************)
(* Counts.                                                                 *)
(***************************************************************************)
node_count(g) == (g.numX + 1) * (g.numY + 1) * (g.numZ + 1)

\* node_count_proc counting intervals instead of node layers.
node_count_proc_NoTopLayer(g) == (g.numX + 1) * (g.numY + 1) * g.myNumZ

node_count_proc(g) == (g.numX + 1) * (g.numY + 1) * (g.myNumZ + 1)

block_count(g) == Len(g.shellBlocks) + 1

shell_element_count(g, loc) ==
  CASE loc \in {"MX", "PX"} -> g.numY * g.numZ
    [] loc \in {"MY", "PY"} -> g.numX * g.numZ
    [] loc \in {"MZ", "PZ"} -> g.numX * g.numY
    [] OTHER -> 0

\* shell_element_count_proc counting the MZ face on every rank.
shell_element_count_proc_MZEveryRank(g, loc) ==
  CASE loc \in {"MX", "PX"} -> g.numY * g.myNumZ
    [] loc \in {"MY", "PY"} -> g.numX * g.myNumZ
    [] loc = "MZ" -> g.numX * g.numY
    [] loc = "PZ" -> IF g.myProcessor = g.processorCount - 1
                     THEN g.numX * g.numY ELSE 0
    [] OTHER -> 0

shell_element_count_proc(g, loc) ==
  CASE loc \in {"MX", "PX"} -> g.numY * g.myNumZ
    [] loc \in {"MY", "PY"} -> g.numX * g.myNumZ
    [] loc = "MZ" -> IF g.myProcessor = 0 THEN g.numX * g.numY ELSE 0
    [] loc = "PZ" -> IF g.myProcessor = g.processorCount - 1
                     THEN g.numX * g.numY ELSE 0
    [] OTHER -> 0

\* element_count(size_t block_number)
element_count_block(g, block_number) ==
  IF block_number = 1 THEN g.numX * g.numY * g.numZ
  ELSE shell_element_count(g, g.shellBlocks[block_number - 1])

\* element_count_proc(size_t block_number)
element_count_proc_block(g, block_number) ==
  IF block_number = 1 THEN g.numX * g.numY * g.myNumZ
  ELSE shell_element_count_proc(g, g.shellBlocks[block_number - 1])

\* element_count()
element_count(g) ==
  element_count_block(g, 1)
    + SumSeq([i \in 1..Len(g.shellBlocks) |-> element_count_block(g, i + 1)])

\* element_count_proc()
element_count_proc(g) ==
  SumSeq([i \in 1..block_count(g) |-> element_count_proc_block(g, i)])

\* topology_type(block_number).second
nodes_per_element(block_number) == IF block_number = 1 THEN 8 ELSE 4

(***************************************************************************)
(* Global ID maps.                                                         *)
(***************************************************************************)
\* node_map using the element offset of the slab instead of the node offset.
node_map_ElementOffset(g) ==
  LET count == node_count_proc(g)
      offset == g.myStartZ * g.numX * g.numY
  IN Resized(count, [i \in 1..count |-> offset + (i - 1) + 1])

\* The node map without the offset of the rank's first layer.
node_map_LocalIds(g) ==
  LET count == node_count_proc(g)
  IN Resized(count, [i \in 1..count |-> (i - 1) + 1])

\* node_map(std::vector<int> &map)
node_map(g) ==
  LET count == node_count_proc(g)
      offset == g.myStartZ * (g.numX + 1) * (g.numY + 1)
  IN Resized(count, [i \in 1..count |-> offset + (i - 1) + 1])

\* The size both output vectors are resized to, doubled with || for &&.
CommCount_Or(g) ==
  LET slab == (g.numX + 1) * (g.numY + 1)
  IN IF g.myProcessor # 0 \/ g.myProcessor # g.processorCount - 1
     THEN slab * 2 ELSE slab

\* The size both output vectors of node_communication_map are resized to.
CommCount(g) ==
  LET slab == (g.numX + 1) * (g.numY + 1)
  IN IF g.myProcessor # 0 /\ g.myProcessor # g.processorCount - 1
     THEN slab * 2 ELSE slab

node_communication_map(g) ==
  LET slab == (g.numX + 1) * (g.numY + 1)
      count == CommCount(g)
      offLo == g.myStartZ * (g.numX + 1) * (g.numY + 1)
      offHi == (g.myStartZ + g.myNumZ) * (g.numX + 1) * (g.numY + 1)
      lo == IF g.myProcessor # 0
            THEN [i \in 1..slab |-> <<offLo + (i - 1) + 1, g.myProcessor - 1>>]
            ELSE <<>>
      hi == IF g.myProcessor # g.processorCount - 1
            THEN [i \in 1..slab |-> <<offHi + (i - 1) + 1, g.myProcessor + 1>>]
            ELSE <<>>
      w == lo \o hi
  IN [map |-> Resized(count, [k \in 1..Len(w) |-> w[k][1]]),
      proc |-> Resized(count, [k \in 1..Len(w) |-> w[k][2]])]

\* The rank offset with the X and Y interval counts exchanged.
ShellMapOffset_Swapped(g, loc) ==
  CASE loc \in {"MX", "PX"} -> g.myStartZ * g.numX
    [] loc \in {"MY", "PY"} -> g.myStartZ * g.numY
    [] OTHER -> 0

\* The switch (loc) computing a shell block's rank offset in element_map.
ShellMapOffset(g, loc) ==
  CASE loc \in {"MX", "PX"} -> g.myStartZ * g.numY
    [] loc \in {"MY", "PY"} -> g.myStartZ * g.numX
    [] OTHER -> 0

\* start after the blocks preceding shell block ib (0-based, as in the loops).
RECURSIVE ShellMapStart(_, _)
ShellMapStart(g, ib) ==
  IF ib = 0 THEN element_count_block(g, 1)
  ELSE ShellMapStart(g, ib - 1) + element_count_block(g, (ib - 1) + 2)

\* element_map(size_t block_number, std::vector<int> &map)
element_map_block(g, block_number) ==
  LET count == element_count_proc_block(g, block_number)
  IN IF block_number = 1
     THEN LET offset == g.myStartZ * g.numX * g.numY
          IN Resized(count, [i \in 1..count |-> offset + (i - 1) + 1])
     ELSE LET ib == block_number - 2
              start == ShellMapStart(g, ib)
              offset == ShellMapOffset(g, g.shellBlocks[ib + 1])
          IN Resized(count, [i \in 1..count |-> start + offset + (i - 1) + 1])

\* element_map(std::vector<int> &map)
element_map(g) ==
  LET count1 == element_count_proc_block(g, 1)
      offset1 == g.myStartZ * g.numX * g.numY
      hex == [i \in 1..count1 |-> offset1 + (i - 1) + 1]
      shell(ib) ==
        LET count == element_count_proc_block(g, ib + 2)
            offset == ShellMapOffset(g, g.shellBlocks[ib + 1])
            start == ShellMapStart(g, ib)
        IN [i \in 1..count |-> start + offset + (i - 1) + 1]
  IN Resized(element_count_proc(g),
             hex \o Concat([b \in 1..Len(g.shellBlocks) |-> shell(b - 1)]))

(***************************************************************************)
(* Coordinates.                                                            *)
(***************************************************************************)
\* The lattice nodes (m, i, j) in the order of the three nested loops.
\* The lattice walked with a layer index local to the rank.
LatticeOrder_LocalLayer(g) ==
  Concat([lm \in 1..(g.myNumZ + 1) |->
    Concat([li \in 1..(g.numY + 1) |->
      [lj \in 1..(g.numX + 1) |-> <<lm - 1, li - 1, lj - 1>>]])])

LatticeOrder(g) ==
  Concat([lm \in 1..(g.myNumZ + 1) |->
    Concat([li \in 1..(g.numY + 1) |->
      [lj \in 1..(g.numX + 1) |-> <<g.myStartZ + (lm - 1), li - 1, lj - 1>>]])])

Rotate(g, p) ==
  <<p[1] * g.rotmat[1][1] + p[2] * g.rotmat[2][1] + p[3] * g.rotmat[3][1],
    p[1] * g.rotmat[1][2] + p[2] * g.rotmat[2][2] + p[3] * g.rotmat[3][2],
    p[1] * g.rotmat[1][3] + p[2] * g.rotmat[2][3] + p[3] * g.rotmat[3][3]>>

\* coordinates(std::vector<double> &coord): interleaved x, y, z.
coordinates(g) ==
  LET count == node_count_proc(g)
      lat == LatticeOrder(g)
      raw(n) == <<g.sclX * n[3] + g.offX,
                  g.sclY * n[2] + g.offY,
                  g.sclZ * n[1] + g.offZ>>
      pt(n) == IF g.doRotation THEN Rotate(g, raw(n)) ELSE raw(n)
  IN Resized(count * 3, Concat([k \in 1..Len(lat) |-> pt(lat[k])]))

\* The rotation with the matrix transposed.
RotateXYZ_Transposed(g, xn, yn, zn) ==
  <<xn * g.rotmat[1][1] + yn * g.rotmat[1][2] + zn * g.rotmat[1][3],
    xn * g.rotmat[2][1] + yn * g.rotmat[2][2] + zn * g.rotmat[2][3],
    xn * g.rotmat[3][1] + yn * g.rotmat[3][2] + zn * g.rotmat[3][3]>>

\* The rotation loop of coordinates(x, y, z).
RotateXYZ(g, xn, yn, zn) ==
  <<xn * g.rotmat[1][1] + yn * g.rotmat[2][1] + zn * g.rotmat[3][1],
    xn * g.rotmat[1][2] + yn * g.rotmat[2][2] + zn * g.rotmat[3][2],
    xn * g.rotmat[1][3] + yn * g.rotmat[2][3] + zn * g.rotmat[3][3]>>

\* coordinates(std::vector<double> &x, &y, &z): one vector per axis.
coordinates_xyz(g) ==
  LET count == node_count_proc(g)
      lat == LatticeOrder(g)
      x0(n) == g.sclX * n[3] + g.offX
      y0(n) == g.sclY * n[2] + g.offY
      z0(n) == g.sclZ * n[1] + g.offZ
      pt(n) == IF g.doRotation THEN RotateXYZ(g, x0(n), y0(n), z0(n))
               ELSE <<x0(n), y0(n), z0(n)>>
  IN [x |-> Resized(count, [k \in 1..Len(lat) |-> pt(lat[k])[1]]),
      y |-> Resized(count, [k \in 1..Len(lat) |-> pt(lat[k])[2]]),
      z |-> Resized(count, [k \in 1..Len(lat) |-> pt(lat[k])[3]])]

(***************************************************************************)
(* Connectivity.                                                           *)
(***************************************************************************)
\* The hex loop body with the last two nodes of each face exchanged.
HexElem_Crossed(g, m, i, j) ==
  LET xp1yp1 == (g.numX + 1) * (g.numY + 1)
      k == i * g.numX + j
      base == (m * xp1yp1) + k + i + 1 - g.myStartZ * xp1yp1
  IN <<base, base + 1, base + g.numX + 1, base + g.numX + 2,
       xp1yp1 + base, xp1yp1 + base + 1,
       xp1yp1 + base + g.numX + 1, xp1yp1 + base + g.numX + 2>>

\* Body of the innermost loop of the hex block: the eight nodes of the
\* element at global layer m, row i, column j (k counts the elements of the
\* layer visited so far).
HexElem(g, m, i, j) ==
  LET xp1yp1 == (g.numX + 1) * (g.numY + 1)
      k == i * g.numX + j
      base == (m * xp1yp1) + k + i + 1 - g.myStartZ * xp1yp1
  IN <<base, base + 1, base + g.numX + 2, base + g.numX + 1,
       xp1yp1 + base, xp1yp1 + base + 1,
       xp1yp1 + base + g.numX + 2, xp1yp1 + base + g.numX + 1>>

HexConnect(g) ==
  LET elem(m, i, j) == HexElem(g, m, i, j)
  IN Concat([lm \in 1..g.myNumZ |->
       Concat([li \in 1..g.numY |->
         Concat([lj \in 1..g.numX |->
           elem(g.myStartZ + (lm - 1), li - 1, lj - 1)])])])

ShellConnect(g, loc) ==
  LET xp1yp1 == (g.numX + 1) * (g.numY + 1)
      nx1 == g.numX + 1
      mx(i, j) == LET base == i * xp1yp1 + j * nx1 + 1
                  IN <<base, base + xp1yp1, base + xp1yp1 + nx1, base + nx1>>
      px(i, j) == LET base == i * xp1yp1 + j * nx1 + g.numX + 1
                  IN <<base, base + nx1, base + xp1yp1 + nx1, base + xp1yp1>>
      my(i, j) == LET base == i * xp1yp1 + j + 1
                  IN <<base, base + 1, base + xp1yp1 + 1, base + xp1yp1>>
      py(i, j) == LET base == i * xp1yp1 + nx1 * g.numY + j + 1
                  IN <<base, base + xp1yp1, base + xp1yp1 + 1, base + 1>>
      mz(i, j) == LET k == i * g.numX + j
                      base == i + k + 1
                  IN <<base, base + g.numX + 1, base + g.numX + 2, base + 1>>
      pz(i, j) == LET k == i * g.numX + j
                      base == xp1yp1 * (g.numZ - g.myStartZ) + k + i + 1
                  IN <<base, base + 1, base + g.numX + 2, base + g.numX + 1>>
      side(f(_, _), inner) ==
        Concat([li \in 1..g.myNumZ |->
          Concat([lj \in 1..inner |-> f(li - 1, lj - 1)])])
      cap(f(_, _)) ==
        Concat([li \in 1..g.numY |->
          Concat([lj \in 1..g.numX |-> f(li - 1, lj - 1)])])
  IN CASE loc = "MX" -> side(mx, g.numY)
       [] loc = "PX" -> side(px, g.numY)
       [] loc = "MY" -> side(my, g.numX)
       [] loc = "PY" -> side(py, g.numX)
       [] loc = "MZ" -> IF g.myProcessor = 0 THEN cap(mz) ELSE <<>>
       [] loc = "PZ" -> IF g.myProcessor = g.processorCount - 1
                        THEN cap(pz) ELSE <<>>

\* connectivity(size_t block_number, std::vector<int> &connect)
connectivity(g, block_number) ==
  IF block_number = 1
  THEN Resized(element_count_proc_block(g, block_number) * 8, HexConnect(g))
  ELSE Resized(element_count_block(g, block_number) * 4,
               ShellConnect(g, g.shellBlocks[block_number - 1]))

(***************************************************************************)
(* element_surface_map and the face table.                                 *)
(***************************************************************************)
\* The face table with face 4 listed in the opposite winding.
faceNodes_FlippedCap ==
  <<<<1, 2, 6, 5>>, <<2, 3, 7, 6>>, <<3, 4, 8, 7>>,
    <<4, 1, 5, 8>>, <<1, 2, 3, 4>>, <<5, 6, 7, 8>>>>

\* faceNodes[6][4] as initialize() fills it: the 1-based hex-local nodes of
\* the 0-based local faces 0..5 (row f + 1 holds face f).
faceNodes ==
  <<<<1, 2, 6, 5>>, <<2, 3, 7, 6>>, <<3, 4, 8, 7>>,
    <<4, 1, 5, 8>>, <<4, 3, 2, 1>>, <<5, 6, 7, 8>>>>

\* The writes map[2*index] = elem, map[2*index+1] = face that the loops of
\* element_surface_map(loc) make, in program order (index is 0-based).
SurfaceWrites(g, loc) ==
  LET nxy == g.numX * g.numY
      rows(inner, w(_, _)) ==
        Concat([lk \in 1..g.numZ |->
          [l \in 1..inner |-> w(lk - 1, l - 1)]])
      cap(w(_, _)) ==
        Concat([lj \in 1..g.numY |->
          [li \in 1..g.numX |-> w(lj - 1, li - 1)]])
  IN CASE loc = "MX" ->
            rows(g.numY, LAMBDA k, j :
              [index |-> k * g.numY + j, elem |-> k * nxy + j * g.numX + 1, face |-> 3])
       [] loc = "PX" ->
            rows(g.numY, LAMBDA k, j :
              [index |-> k * g.numY + j,
               elem |-> (g.numX - 1) + k * nxy + j * g.numX + 1, face |-> 1])
       [] loc = "MY" ->
            rows(g.numX, LAMBDA k, i :
              [index |-> k * g.numX + i, elem |-> k * nxy + i + 1, face |-> 0])
       [] loc = "PY" ->
            rows(g.numX, LAMBDA k, i :
              [index |-> k * g.numX + i,
               elem |-> (g.numY - 1) * g.numX + k * nxy + i + 1, face |-> 2])
       [] loc = "MZ" ->
            cap(LAMBDA j, i :
              [index |-> j * g.numX + i, elem |-> j * g.numX + i + 1, face |-> 4])
       [] loc = "PZ" ->
            cap(LAMBDA j, i :
              [index |-> j * g.numX + i,
               elem |-> (g.numZ - 1) * nxy + j * g.numX + i + 1, face |-> 5])

\* element_surface_map(ShellLocation loc, std::vector<int> &map) on a fresh
\* vector: map.resize(2*count), then the writes.  overrun tells that a write
\* fell outside the 2*count entries; map holds the writes that fell inside.
element_surface_map(g, loc) ==
  LET count == shell_element_count_proc(g, loc)
      ws == SurfaceWrites(g, loc)
      inside == SelectSeq(ws, LAMBDA w : w.index < count)
      at(p) == IF \E n \in 1..Len(inside) : inside[n].index = p
               THEN LET w == inside[CHOOSE n \in 1..Len(inside) : inside[n].index = p]
                    IN <<w.elem, w.face>>
               ELSE <<0, 0>>
  IN [size |-> 2 * count,
      writes |-> Len(ws),
      overrun |-> Len(inside) < Len(ws),
      map |-> Concat([p \in 1..count |-> at(p - 1)])]

(***************************************************************************)
(* Inputs: constructor arguments drawn from bounded sets.                  *)
(***************************************************************************)
SeqsUpTo(S, n) == UNION {[1..k -> S] : k \in 0..n}

ShellChars == {"x", "X", "y", "Y", "z", "Z", "q"}

IntervalGroups ==
  {<<Tok(nx), Tok(ny), Tok(nz)>> : nx \in 1..MaxXY, ny \in 1..MaxXY, nz \in 1..MaxZ}

ZTokens == {Tok(n) : n \in 0..MaxZd}

Options ==
  {[key |-> "shell", arg |-> <<<<c>>>>] : c \in ShellChars}
    \cup {[key |-> "zdecomp", arg |-> a] : a \in SeqsUpTo(ZTokens, MaxProc) \ {<<>>}}
    \cup {[key |-> k, arg |-> <<>>] : k \in {"help", "show", "bogus"}}

StrArgs ==
  {[kind |-> "str", proc_count |-> P,
    parameters |-> [intervals |-> iv, options |-> os]] :
      P \in 1..MaxProc, iv \in IntervalGroups, os \in SeqsUpTo(Options, MaxGroups)}

IntArgs ==
  {[kind |-> "ints", proc_count |-> P, num_x |-> nx, num_y |-> ny, num_z |-> nz] :
      P \in 1..MaxProc, nx \in 1..MaxXY, ny \in 1..MaxXY, nz \in 1..MaxZ}

NoArgs == [kind |-> "none"]

NoCall == [op |-> "none"]

Unbuilt == [r \in {} |-> 0]

\* The instances of all ranks built from the same constructor arguments.
Build(a) ==
  [r \in 0..(a.proc_count - 1) |->
     IF a.kind = "str" THEN GeneratedMeshStr(a.parameters, a.proc_count, r)
     ELSE GeneratedMeshInts(a.num_x, a.num_y, a.num_z, a.proc_count, r)]

Ranks == DOMAIN mesh

Built == Ranks # {}

AllOk == Built /\ \A r \in Ranks : mesh[r].status = "ok"

(***************************************************************************)
(* Actions.                                                                *)
(***************************************************************************)
Init == mesh = Unbuilt /\ args = NoArgs /\ out = NoCall

ConstructStr ==
  /\ ~Built
  /\ \E a \in StrArgs : mesh' = Build(a)
  /\ UNCHANGED <<args, out>>

ConstructInts ==
  /\ ~Built
  /\ \E a \in IntArgs : mesh' = Build(a)
  /\ UNCHANGED <<args, out>>

AddShellBlock ==
  /\ AllOk
  /\ \E loc \in ShellLocation :
       /\ \A r \in Ranks : Len(mesh[r].shellBlocks) < MaxShell
       /\ mesh' = [r \in Ranks |-> add_shell_block(mesh[r], loc)]
  /\ UNCHANGED <<args, out>>

CallCounts ==
  /\ \E r \in Ranks :
       /\ mesh[r].status = "ok"
       /\ out' = [op |-> "counts", rank |-> r,
                  node_count |-> node_count(mesh[r]),
                  node_count_proc |-> node_count_proc(mesh[r]),
                  element_count |-> element_count(mesh[r]),
                  element_count_proc |-> element_count_proc(mesh[r]),
                  block_count |-> block_count(mesh[r])]
  /\ UNCHANGED <<mesh, args>>

CallNodeMap ==
  /\ \E r \in Ranks :
       /\ mesh[r].status = "ok"
       /\ out' = [op |-> "node_map", rank |-> r, map |-> node_map(mesh[r])]
  /\ UNCHANGED <<mesh, args>>

CallNodeCommunicationMap ==
  /\ \E r \in Ranks :
       /\ mesh[r].status = "ok"
       /\ out' = [op |-> "node_communication_map", rank |-> r,
                  map |-> node_communication_map(mesh[r]).map,
                  proc |-> node_communication_map(mesh[r]).proc]
  /\ UNCHANGED <<mesh, args>>

CallElementMapBlock ==
  /\ \E r \in Ranks :
       /\ mesh[r].status = "ok"
       /\ \E b \in 1..block_count(mesh[r]) :
            out' = [op |-> "element_map_block", rank |-> r, block |-> b,
                    map |-> element_map_block(mesh[r], b)]
  /\ UNCHANGED <<mesh, args>>

CallElementMap ==
  /\ \E r \in Ranks :
       /\ mesh[r].status = "ok"
       /\ out' = [op |-> "element_map", rank |-> r, map |-> element_map(mesh[r])]
  /\ UNCHANGED <<mesh, args>>

CallCoordinates ==
  /\ \E r \in Ranks :
       /\ mesh[r].status = "ok"
       /\ out' = [op |-> "coordinates", rank |-> r, coord |-> coordinates(mesh[r])]
  /\ UNCHANGED <<mesh, args>>

CallConnectivity ==
  /\ \E r \in Ranks :
       /\ mesh[r].status = "ok"
       /\ \E b \in 1..block_count(mesh[r]) :
            out' = [op |-> "connectivity", rank |-> r, block |-> b,
                    connect |-> connectivity(mesh[r], b)]
  /\ UNCHANGED <<mesh, args>>

Next ==
  \/ ConstructStr
  \/ ConstructInts
  \/ AddShellBlock
  \/ CallCounts
  \/ CallNodeMap
  \/ CallNodeCommunicationMap
  \/ CallElementMapBlock
  \/ CallElementMap
  \/ CallCoordinates
  \/ CallConnectivity

Spec == Init /\ [][Next]_vars

(***************************************************************************)
(* The mesh under construction and mutation with one family of queries.    *)
(***************************************************************************)
NextCounts == ConstructStr \/ ConstructInts \/ AddShellBlock \/ CallCounts

SpecCounts == Init /\ [][NextCounts]_vars

NextConn == ConstructStr \/ ConstructInts \/ AddShellBlock \/ CallConnectivity

SpecConn == Init /\ [][NextConn]_vars

NextNodes ==
  \/ ConstructStr
  \/ ConstructInts
  \/ AddShellBlock
  \/ CallNodeMap
  \/ CallCoordinates
  \/ CallNodeCommunicationMap

SpecNodes == Init /\ [][NextNodes]_vars

NextElems ==
  \/ ConstructStr
  \/ ConstructInts
  \/ AddShellBlock
  \/ CallElementMapBlock
  \/ CallElementMap

SpecElems == Init /\ [][NextElems]_vars

(***************************************************************************)
(* Construction alone, with the constructor arguments kept in args.        *)
(***************************************************************************)
InitCtor == mesh = Unbuilt /\ args \in (StrArgs \cup IntArgs) /\ out = NoCall

Construct ==
  /\ ~Built
  /\ mesh' = Build(args)
  /\ UNCHANGED <<args, out>>

NextCtor == Construct

SpecCtor == InitCtor /\ [][NextCtor]_vars

(***************************************************************************)
(* Coordinates under scale, offset and rotation.                           *)
(***************************************************************************)
\* Constructor strings without shell blocks: an interval group and at most
\* one zdecomp option.
PlainArgs ==
  {[kind |-> "str", proc_count |-> P,
    parameters |-> [intervals |-> iv, options |-> os]] :
      P \in 1..MaxProc, iv \in IntervalGroups,
      os \in SeqsUpTo({o \in Options : o.key = "zdecomp"}, 1)}

ScaleVals == {1, 2}

OffsetVals == {0, -3}

AxisTokens == {<<"x">>, <<"X">>, <<"y">>, <<"Y">>, <<"z">>, <<"Z">>, <<"q">>}

AngleVals == {0, 90, -90, 180}

ConstructPlain ==
  /\ ~Built
  /\ \E a \in PlainArgs : mesh' = Build(a)
  /\ UNCHANGED <<args, out>>

\* The mutator calls return nothing; out records the call that was made and,
\* for set_rotation, the rotation state it found.
SetScale ==
  /\ AllOk
  /\ \E sx \in ScaleVals, sy \in ScaleVals, sz \in ScaleVals :
       /\ mesh' = [r \in Ranks |-> set_scale(mesh[r], sx, sy, sz)]
       /\ out' = [op |-> "set_scale"]
  /\ UNCHANGED args

SetOffset ==
  /\ AllOk
  /\ \E ox \in OffsetVals, oy \in OffsetVals, oz \in OffsetVals :
       /\ mesh' = [r \in Ranks |-> set_offset(mesh[r], ox, oy, oz)]
       /\ out' = [op |-> "set_offset"]
  /\ UNCHANGED args

SetRotation ==
  /\ AllOk
  /\ \E axis \in AxisTokens, angle \in AngleVals :
       /\ mesh' = [r \in Ranks |-> set_rotation(mesh[r], axis, angle)]
       /\ out' = [op |-> "set_rotation", axis |-> axis, angle |-> angle,
                  rotmat |-> mesh[0].rotmat, doRotation |-> mesh[0].doRotation]
  /\ UNCHANGED args

\* Constructor strings that set scale, offset and rotation through options:
\* an optional scale option, an optional offset option and an optional rotate
\* option of one axis, angle pair, in that order.
AngleTokens == {<<"0">>, <<"9", "0">>, <<"-", "9", "0">>, <<"1", "8", "0">>}

ScaleTriples ==
  {<<<<"2">>, <<"1">>, <<"1">>>>, <<<<"1">>, <<"2">>, <<"1">>>>, <<<<"1">>, <<"1">>, <<"2">>>>}

OffsetTriples ==
  {<<<<"-", "3">>, <<"0">>, <<"0">>>>, <<<<"0">>, <<"-", "3">>, <<"0">>>>,
   <<<<"0">>, <<"0">>, <<"-", "3">>>>}

ScaleOptions == {[key |-> "scale", arg |-> t] : t \in ScaleTriples}

OffsetOptions == {[key |-> "offset", arg |-> t] : t \in OffsetTriples}

RotateOptions ==
  {[key |-> "rotate", arg |-> <<a, d>>] :
      a \in {<<"x">>, <<"y">>, <<"z">>}, d \in AngleTokens}

PlacedArgs ==
  {[kind |-> "str", proc_count |-> P,
    parameters |-> [intervals |-> iv, options |-> sc \o of \o ro]] :
      P \in 1..MaxProc, iv \in IntervalGroups,
      sc \in SeqsUpTo(ScaleOptions, 1), of \in SeqsUpTo(OffsetOptions, 1),
      ro \in SeqsUpTo(RotateOptions, 1)}

ConstructPlaced ==
  /\ ~Built
  /\ \E a \in PlacedArgs : mesh' = Build(a)
  /\ UNCHANGED <<args, out>>

CallCoordinatesXYZ ==
  /\ \E r \in Ranks :
       /\ mesh[r].status = "ok"
       /\ LET s == coordinates_xyz(mesh[r])
          IN out' = [op |-> "coordinates_xyz", rank |-> r,
                     x |-> s.x, y |-> s.y, z |-> s.z]
  /\ UNCHANGED <<mesh, args>>

NextXYZ ==
  \/ ConstructPlaced
  \/ CallCoordinates
  \/ CallCoordinatesXYZ

SpecXYZ == Init /\ [][NextXYZ]_vars

NextCoords ==
  \/ ConstructPlain
  \/ SetScale
  \/ SetOffset
  \/ CallCoordinates

SpecCoords == Init /\ [][NextCoords]_vars

NextRot ==
  \/ ConstructInts
  \/ SetRotation
  \/ CallCoordinates

SpecRot == Init /\ [][NextRot]_vars

(***************************************************************************)
(* set_bbox as a mutator call.                                             *)
(***************************************************************************)
BboxMinVals == {0, -3}

BboxMaxVals == {9, 12}

\* The quotient range / num is exact.
ExactSpan(lo, hi, num) == num # 0 /\ (hi - lo) % num = 0

\* set_bbox is called with boxes whose ranges the current interval counts
\* divide; out records the call and its arguments.
SetBbox ==
  /\ AllOk
  /\ \E xmin \in BboxMinVals, ymin \in BboxMinVals, zmin \in BboxMinVals,
        xmax \in BboxMaxVals, ymax \in BboxMaxVals, zmax \in BboxMaxVals :
       /\ ExactSpan(xmin, xmax, mesh[0].numX)
       /\ ExactSpan(ymin, ymax, mesh[0].numY)
       /\ ExactSpan(zmin, zmax, mesh[0].numZ)
       /\ mesh' = [r \in Ranks |->
                     set_bbox(mesh[r], xmin, ymin, zmin, xmax, ymax, zmax)]
       /\ out' = [op |-> "set_bbox", min |-> <<xmin, ymin, zmin>>,
                  max |-> <<xmax, ymax, zmax>>]
  /\ UNCHANGED args

NextBbox ==
  \/ ConstructPlain
  \/ SetBbox
  \/ CallCoordinates

SpecBbox == Init /\ [][NextBbox]_vars

(***************************************************************************)
(* Constructor strings with malformed groups.                              *)
(***************************************************************************)
\* Tokens of the interval group: zero, positive and non-numeric.  Negative
\* tokens are left out: the members that receive them are declared in
\* GeneratedMesh.hpp.
IntervalTokens == {<<"0">>, <<"1">>, <<"2">>, <<"a">>}

TokenArgs ==
  {[kind |-> "str", proc_count |-> P,
    parameters |-> [intervals |-> <<a, b, c>>, options |-> <<>>]] :
      P \in 1..MaxProc, a \in IntervalTokens, b \in IntervalTokens,
      c \in IntervalTokens}

InitTokens == mesh = Unbuilt /\ args \in TokenArgs /\ out = NoCall

SpecTokens == InitTokens /\ [][NextCtor]_vars

\* Interval groups of two, three and four tokens.
ParseIntervals ==
  {<<Tok(2), Tok(2), Tok(2)>>, <<Tok(1), Tok(2), Tok(3)>>,
   <<Tok(2), Tok(2)>>, <<Tok(2), Tok(2), Tok(2), Tok(2)>>}

\* Shell arguments of one or two characters.
ShellArgs == SeqsUpTo(ShellChars, 2) \ {<<>>}

\* Options with the token count their branch asserts, and with another one.
ParseOptions ==
  {[key |-> "shell", arg |-> <<a>>] : a \in ShellArgs}
    \cup {[key |-> "scale", arg |-> a] :
            a \in {<<Tok(2), Tok(1), Tok(3)>>, <<Tok(2), Tok(1)>>,
                   <<Tok(2), Tok(1), Tok(3), Tok(1)>>}}
    \cup {[key |-> "offset", arg |-> a] :
            a \in {<<Tok(1), Tok(0), Tok(2)>>, <<Tok(1)>>,
                   <<Tok(1), Tok(0), Tok(2), Tok(0)>>}}
    \cup {[key |-> "zdecomp", arg |-> a] :
            a \in {<<Tok(1)>>, <<Tok(1), Tok(2)>>, <<Tok(2), Tok(1), Tok(1)>>}}
    \cup {[key |-> "bbox", arg |-> a] :
            a \in {<<Tok(0), Tok(0), Tok(0), Tok(12), Tok(12), Tok(12)>>,
                   <<Tok(0), Tok(0), Tok(0), Tok(12), Tok(12)>>,
                   <<Tok(0), Tok(0), Tok(0), Tok(12), Tok(12), Tok(12), Tok(12)>>}}
    \cup {[key |-> "rotate", arg |-> a] :
            a \in {<<<<"z">>, Tok(90)>>, <<<<"x">>, Tok(90), <<"q">>, Tok(90)>>,
                   <<<<"z">>>>, <<<<"z">>, Tok(90), <<"x">>>>}}
    \cup {[key |-> k, arg |-> <<>>] : k \in {"help", "show", "bogus"}}

ParseArgs ==
  {[kind |-> "str", proc_count |-> P,
    parameters |-> [intervals |-> iv, options |-> os]] :
      P \in 1..2, iv \in ParseIntervals, os \in SeqsUpTo(ParseOptions, MaxGroups)}

InitParse == mesh = Unbuilt /\ args \in ParseArgs /\ out = NoCall

SpecParse == InitParse /\ [][NextCtor]_vars

(***************************************************************************)
(* Properties of the Z partition (checked under SpecCtor).                 *)
(***************************************************************************)
NumRanks == Cardinality(Ranks)

\* The Z intervals owned by rank r.
Slab(r) == {z \in 0..(mesh[r].myStartZ + mesh[r].myNumZ - 1) : z >= mesh[r].myStartZ}

SlabsTile ==
  /\ mesh[0].myStartZ = 0
  /\ \A r \in Ranks :
       IF r + 1 \in Ranks
       THEN mesh[r + 1].myStartZ = mesh[r].myStartZ + mesh[r].myNumZ
       ELSE mesh[r].myStartZ + mesh[r].myNumZ = mesh[r].numZ
  /\ \A r, q \in Ranks : r # q => Slab(r) \cap Slab(q) = {}
  /\ UNION {Slab(r) : r \in Ranks} = 0..(mesh[0].numZ - 1)

ZdecompIndexes ==
  IF args.kind = "str"
  THEN {i \in 1..Len(args.parameters.options) :
          args.parameters.options[i].key = "zdecomp"}
  ELSE {}

\* The constructor arguments ask for no explicit decomposition.
UniformArgs == args.kind \in {"str", "ints"} /\ ZdecompIndexes = {}

\* The Z interval count named by the constructor arguments.
ArgNumZ == IF args.kind = "ints" THEN args.num_z
           ELSE strtol(args.parameters.intervals[3])

\* C1: for numZ >= processorCount >= 1 the slabs [myStartZ, myStartZ+myNumZ)
\* that initialize() computes for ranks 0..processorCount-1 are contiguous in
\* rank order, pairwise disjoint, and their union is exactly [0, numZ).
C1_UniformSlabsTile ==
  (AllOk /\ UniformArgs) =>
     /\ ArgNumZ >= NumRanks
     /\ \A r \in Ranks : mesh[r].numZ = ArgNumZ
     /\ SlabsTile

C1_Witness ==
  /\ AllOk /\ UniformArgs
  /\ NumRanks = 2
  /\ mesh[0].myNumZ = 2 /\ mesh[1].myStartZ = 2 /\ mesh[1].myNumZ = 1

\* C2: in the uniform split rank r gets myNumZ = numZ/P + (1 if r < numZ%P)
\* and myStartZ = r*(numZ/P) + min(numZ%P, r); exactly the first numZ%P ranks
\* hold one extra interval, two ranks differ by at most one interval, and a
\* single processor gets myNumZ = numZ and myStartZ = 0.
C2_UniformSplitFormula ==
  (AllOk /\ UniformArgs) =>
     LET P == NumRanks
         q == ArgNumZ \div P
         m == ArgNumZ % P
     IN /\ \A r \in Ranks :
             /\ mesh[r].myNumZ = q + (IF r < m THEN 1 ELSE 0)
             /\ mesh[r].myStartZ = r * q + (IF m < r THEN m ELSE r)
        /\ {r \in Ranks : mesh[r].myNumZ = q + 1} = 0..(m - 1)
        /\ {r \in Ranks : mesh[r].myNumZ = q} = m..(P - 1)
        /\ \A r, s \in Ranks : mesh[r].myNumZ - mesh[s].myNumZ \in {-1, 0, 1}
        /\ P = 1 => (mesh[0].myNumZ = ArgNumZ /\ mesh[0].myStartZ = 0)

C2_Witness ==
  /\ AllOk /\ UniformArgs
  /\ NumRanks = 2 /\ ArgNumZ = 3
  /\ mesh[0].myNumZ = 2 /\ mesh[0].myStartZ = 0
  /\ mesh[1].myNumZ = 1 /\ mesh[1].myStartZ = 2

\* The integers listed by the last zdecomp option of the constructor arguments.
LastZdecomp ==
  LET i == CHOOSE k \in ZdecompIndexes : \A l \in ZdecompIndexes : l <= k
      tokens == args.parameters.options[i].arg
  IN [j \in 1..Len(tokens) |-> strtol(tokens[j])]

\* C3: after a zdecomp option listing processorCount non-negative integers
\* Z[0..P-1], every rank r has numZ = sum of all Z[k], myNumZ = Z[r] and
\* myStartZ = sum of Z[k] for k < r, so the slabs tile [0, numZ) in rank order
\* whatever the uniform split of initialize() was.
C3_ZdecompSplit ==
  (AllOk /\ ZdecompIndexes # {}) =>
     LET Z == LastZdecomp
     IN /\ Len(Z) = NumRanks
        /\ \A r \in Ranks :
             /\ mesh[r].myNumZ = Z[r + 1]
             /\ mesh[r].myStartZ = (IF r = 0 THEN 0
                                    ELSE mesh[r - 1].myStartZ + Z[r])
             /\ mesh[r].numZ = mesh[NumRanks - 1].myStartZ + Z[NumRanks]
        /\ SlabsTile

C3_Witness ==
  /\ AllOk /\ ZdecompIndexes # {}
  /\ NumRanks = 3
  /\ ArgNumZ = 3
  /\ LastZdecomp = <<2, 0, 1>>
  /\ mesh[1].myNumZ = 0 /\ mesh[1].myStartZ = 2
  /\ mesh[2].myNumZ = 1 /\ mesh[2].myStartZ = 2
  /\ mesh[0].numZ = 3

(***************************************************************************)
(* Properties of counts, maps and connectivity.                            *)
(***************************************************************************)
\* The sum of f over the instances of all ranks.
SumRanks(f(_)) == SumSeq([i \in 1..NumRanks |-> f(mesh[i - 1])])

\* The global number of quads on a face of the numX x numY x numZ box.
FaceQuads(g, loc) ==
  IF loc \in {"MX", "PX"} THEN g.numY * g.numZ
  ELSE IF loc \in {"MY", "PY"} THEN g.numX * g.numZ
  ELSE g.numX * g.numY

\* C4: element_count() is numX*numY*numZ plus the global shell counts of all
\* shell blocks, the element_count_proc() of all ranks add up to
\* element_count(), and per block MZ elements are counted only on rank 0 and
\* PZ elements only on rank processorCount-1.
C4_ElementCounts ==
  AllOk =>
     /\ \A r \in Ranks :
          LET g == mesh[r]
          IN /\ element_count(g) =
                  g.numX * g.numY * g.numZ
                    + SumSeq([i \in 1..Len(g.shellBlocks) |->
                                FaceQuads(g, g.shellBlocks[i])])
             /\ \A b \in 2..block_count(g) :
                  /\ g.shellBlocks[b - 1] = "MZ" =>
                       element_count_proc_block(g, b) =
                         (IF r = 0 THEN g.numX * g.numY ELSE 0)
                  /\ g.shellBlocks[b - 1] = "PZ" =>
                       element_count_proc_block(g, b) =
                         (IF r = NumRanks - 1 THEN g.numX * g.numY ELSE 0)
     /\ SumRanks(element_count_proc) = element_count(mesh[0])

C4_Witness ==
  /\ AllOk /\ NumRanks = 2
  /\ mesh[0].shellBlocks = <<"MZ", "PX">>
  /\ out.op = "counts" /\ out.rank = 1
  /\ out.block_count = 3
  /\ out.element_count_proc = element_count_proc(mesh[1])
  /\ out.element_count_proc < out.element_count
  /\ element_count_proc_block(mesh[1], 2) = 0
  /\ element_count_proc_block(mesh[0], 2) > 0

\* C5: the node_count_proc() of all ranks, less the (processorCount-1) node
\* layers of (numX+1)*(numY+1) nodes shared by consecutive ranks, add up to
\* node_count() = (numX+1)*(numY+1)*(numZ+1).
C5_NodeCounts ==
  AllOk =>
     LET g == mesh[0]
         layer == (g.numX + 1) * (g.numY + 1)
     IN /\ node_count(g) = layer * (g.numZ + 1)
        /\ SumRanks(node_count_proc) - (NumRanks - 1) * layer = node_count(g)

C5_Witness ==
  /\ AllOk /\ NumRanks = 3
  /\ out.op = "counts" /\ out.rank = 1
  /\ out.node_count_proc = node_count_proc(mesh[1])
  /\ out.node_count = node_count(mesh[1])
  /\ mesh[1].myNumZ = 0
  /\ mesh[0].myNumZ = 2

\* C6: connectivity(1) lists, for the hex element at local layer l, row i,
\* column j, in layer-major then row-major order, the nodes base, base+1,
\* base+numX+2, base+numX+1 and the same four plus (numX+1)*(numY+1), with
\* base = l*(numX+1)*(numY+1) + i*(numX+1) + j + 1; every entry lies in
\* [1, node_count_proc()]; element 1 of the 2x2x2 single-processor mesh is
\* [1,2,5,4,10,11,14,13].
C6_HexConnectivity ==
  AllOk =>
    \A r \in Ranks :
      LET g == mesh[r]
          c == connectivity(g, 1)
          layer == (g.numX + 1) * (g.numY + 1)
      IN /\ Len(c) = 8 * g.numX * g.numY * g.myNumZ
         /\ \A l \in 0..(g.myNumZ - 1), i \in 0..(g.numY - 1), j \in 0..(g.numX - 1) :
              LET e == l * g.numX * g.numY + i * g.numX + j
                  base == l * layer + i * (g.numX + 1) + j + 1
              IN SubSeq(c, 8 * e + 1, 8 * e + 8) =
                   <<base, base + 1, base + g.numX + 2, base + g.numX + 1,
                     base + layer, base + 1 + layer,
                     base + g.numX + 2 + layer, base + g.numX + 1 + layer>>
         /\ \A n \in 1..Len(c) : c[n] >= 1 /\ c[n] <= node_count_proc(g)
         /\ (g.numX = 2 /\ g.numY = 2 /\ g.numZ = 2 /\ NumRanks = 1) =>
              SubSeq(c, 1, 8) = <<1, 2, 5, 4, 10, 11, 14, 13>>

C6_Witness ==
  /\ AllOk /\ NumRanks = 1
  /\ mesh[0].numX = 2 /\ mesh[0].numY = 2 /\ mesh[0].numZ = 2
  /\ out.op = "connectivity" /\ out.block = 1
  /\ Len(out.connect) = 64
  /\ SubSeq(out.connect, 1, 8) = <<1, 2, 5, 4, 10, 11, 14, 13>>

\* C7: for every rank and every block b, connectivity(b) has exactly
\* element_count_proc(b) * nodes_per_element(b) entries, all of them local
\* node numbers >= 1; an MZ or PZ block is empty on a rank that does not own
\* the face.
C7_ConnectivityLength ==
  AllOk =>
    \A r \in Ranks : \A b \in 1..block_count(mesh[r]) :
      LET c == connectivity(mesh[r], b)
      IN /\ Len(c) = element_count_proc_block(mesh[r], b) * nodes_per_element(b)
         /\ \A n \in 1..Len(c) : c[n] >= 1

\* C8: node_map() has node_count_proc() entries and its k-th entry is the
\* global ID m*(numX+1)*(numY+1) + i*(numX+1) + j + 1 of the lattice node
\* (m,i,j) that coordinates() emits at position k, m ranging over
\* myStartZ..myStartZ+myNumZ: the IDs are consecutive from
\* myStartZ*(numX+1)*(numY+1)+1.
C8_NodeMap ==
  AllOk =>
    \A r \in Ranks :
      LET g == mesh[r]
          nm == node_map(g)
          co == coordinates(g)
          layer == (g.numX + 1) * (g.numY + 1)
          plain == /\ ~g.doRotation
                   /\ g.sclX = 1 /\ g.sclY = 1 /\ g.sclZ = 1
                   /\ g.offX = 0 /\ g.offY = 0 /\ g.offZ = 0
      IN /\ Len(nm) = node_count_proc(g)
         /\ Len(co) = 3 * Len(nm)
         /\ \A k \in 1..Len(nm) :
              /\ nm[k] = g.myStartZ * layer + k
              /\ plain =>
                   LET j == co[3 * k - 2]
                       i == co[3 * k - 1]
                       m == co[3 * k]
                   IN /\ j \in 0..g.numX /\ i \in 0..g.numY
                      /\ m \in g.myStartZ..(g.myStartZ + g.myNumZ)
                      /\ nm[k] = m * layer + i * (g.numX + 1) + j + 1

C8_Witness ==
  /\ AllOk /\ NumRanks = 2
  /\ mesh[1].numX = 2 /\ mesh[1].numY = 1
  /\ mesh[1].myStartZ = 2 /\ mesh[1].myNumZ = 1
  /\ out.op = "node_map" /\ out.rank = 1
  /\ out.map = <<13, 14, 15, 16, 17, 18, 19, 20, 21, 22, 23, 24>>

\* The number of global element IDs that precede block b.
IdsBefore(g, b) == SumSeq([k \in 1..(b - 1) |-> element_count_block(g, k)])

\* The offset of rank instance g inside the ID range of block b.
RankOffset(g, b) ==
  IF b = 1 THEN g.myStartZ * g.numX * g.numY
  ELSE IF g.shellBlocks[b - 1] \in {"MX", "PX"} THEN g.myStartZ * g.numY
  ELSE IF g.shellBlocks[b - 1] \in {"MY", "PY"} THEN g.myStartZ * g.numX
  ELSE 0

\* C9: the element maps of all ranks together assign every global element ID
\* in [1, element_count()] to exactly one (rank, block, local index): hex IDs
\* occupy [1, numX*numY*numZ] with rank offset myStartZ*numX*numY and shell
\* block s the next contiguous range in declaration order with rank offset
\* myStartZ*numY (MX/PX), myStartZ*numX (MY/PY) or 0 (MZ/PZ).
C9_ElementMaps ==
  AllOk =>
    LET g0 == mesh[0]
        B == 1..block_count(g0)
        \* every ID handed out, block by block and inside a block rank by rank
        ids == Concat([b \in B |->
                 Concat([i \in 1..NumRanks |-> element_map_block(mesh[i - 1], b)])])
    IN /\ Len(ids) = element_count(g0)
       /\ {ids[n] : n \in 1..Len(ids)} = 1..element_count(g0)
       /\ \A r \in Ranks, b \in B :
            LET em == element_map_block(mesh[r], b)
            IN \A k \in 1..Len(em) :
                 /\ em[k] = IdsBefore(g0, b) + RankOffset(mesh[r], b) + k
                 /\ em[k] > IdsBefore(g0, b)
                 /\ em[k] <= IdsBefore(g0, b) + element_count_block(g0, b)
       /\ IdsBefore(g0, 1) = 0
       /\ element_count_block(g0, 1) = g0.numX * g0.numY * g0.numZ
       /\ \A r \in Ranks :
            element_map(mesh[r]) =
              Concat([b \in B |-> element_map_block(mesh[r], b)])

C9_Witness ==
  /\ AllOk /\ NumRanks = 2
  /\ mesh[1].numX = 2 /\ mesh[1].numY = 1 /\ mesh[1].numZ = 3
  /\ mesh[1].myStartZ = 2
  /\ mesh[1].shellBlocks = <<"MX", "PZ">>
  /\ out.op = "element_map" /\ out.rank = 1
  /\ out.map = <<5, 6, 9, 10, 11>>

\* The global IDs of the nodes of global node layer m, in node order.
LayerIds(g, m) ==
  [i \in 1..((g.numX + 1) * (g.numY + 1)) |-> m * (g.numX + 1) * (g.numY + 1) + i]

\* C10: with processorCount >= 2, node_communication_map on rank r emits the
\* IDs of all nodes of layer myStartZ paired with rank r-1 when r # 0, then
\* the IDs of all nodes of layer myStartZ+myNumZ paired with rank r+1 when
\* r # processorCount-1, and nothing else.
C10_NodeCommunicationMap ==
  (AllOk /\ NumRanks >= 2) =>
    \A r \in Ranks :
      LET g == mesh[r]
          cm == node_communication_map(g)
          lo == IF r # 0 THEN LayerIds(g, g.myStartZ) ELSE <<>>
          hi == IF r # NumRanks - 1 THEN LayerIds(g, g.myStartZ + g.myNumZ) ELSE <<>>
      IN /\ cm.map = lo \o hi
         /\ cm.proc = [k \in 1..Len(lo) |-> r - 1] \o [k \in 1..Len(hi) |-> r + 1]

C10_Witness ==
  /\ AllOk /\ NumRanks = 3
  /\ mesh[1].numX = 1 /\ mesh[1].numY = 1 /\ mesh[1].numZ = 3
  /\ mesh[1].myStartZ = 1 /\ mesh[1].myNumZ = 1
  /\ out.op = "node_communication_map" /\ out.rank = 1
  /\ out.map = <<5, 6, 7, 8, 9, 10, 11, 12>>
  /\ out.proc = <<0, 0, 0, 0, 2, 2, 2, 2>>

\* The ranks that share a node layer with rank r.
Neighbours(r) == {q \in Ranks : q = r - 1 \/ q = r + 1}

\* C11: for every processorCount >= 1 and every rank, the two sequences
\* returned by node_communication_map have length (numX+1)*(numY+1) times
\* the number of neighbouring ranks (0 on a single processor, 1 on the first
\* and last rank, 2 on an interior rank), and every entry pairs a global node
\* ID >= 1 with an existing neighbouring rank.
C11_CommMapLength ==
  (AllOk /\ out.op = "node_communication_map") =>
    LET g == mesh[out.rank]
        n == (g.numX + 1) * (g.numY + 1) * Cardinality(Neighbours(out.rank))
    IN /\ Len(out.map) = n
       /\ Len(out.proc) = n
       /\ \A k \in 1..Len(out.map) : out.map[k] >= 1
       /\ \A k \in 1..Len(out.proc) : out.proc[k] \in Neighbours(out.rank)

\* The coordinate triple of local node k (0-based) in an interleaved vector.
Triple(co, k) == <<co[3 * k + 1], co[3 * k + 2], co[3 * k + 3]>>

\* C12: with no rotation set, coordinates() returns 3*node_count_proc()
\* values and the node at local position k, for m = myStartZ..myStartZ+myNumZ,
\* i = 0..numY, j = 0..numX in that nesting, is at (sclX*j + offX,
\* sclY*i + offY, sclZ*m + offZ) with the global layer index m; so the layer
\* shared by ranks r and r+1 has identical coordinates on both.
C12_Coordinates ==
  AllOk =>
    \A r \in Ranks :
      LET g == mesh[r]
          co == coordinates(g)
          layer == (g.numX + 1) * (g.numY + 1)
      IN ~g.doRotation =>
           /\ Len(co) = 3 * node_count_proc(g)
           /\ \A m \in g.myStartZ..(g.myStartZ + g.myNumZ), i \in 0..g.numY, j \in 0..g.numX :
                Triple(co, (m - g.myStartZ) * layer + i * (g.numX + 1) + j)
                  = <<g.sclX * j + g.offX, g.sclY * i + g.offY, g.sclZ * m + g.offZ>>
           /\ (r + 1 \in Ranks) =>
                LET h == mesh[r + 1]
                    ch == coordinates(h)
                IN \A n \in 0..(layer - 1) :
                     Triple(co, g.myNumZ * layer + n) = Triple(ch, n)

C12_Witness ==
  /\ AllOk /\ NumRanks = 2
  /\ mesh[1].numX = 1 /\ mesh[1].numY = 1
  /\ mesh[1].myStartZ = 2 /\ mesh[1].myNumZ = 1
  /\ mesh[1].sclX = 2 /\ mesh[1].sclY = 1 /\ mesh[1].sclZ = 2
  /\ mesh[1].offX = -3 /\ mesh[1].offY = 0 /\ mesh[1].offZ = -3
  /\ out.op = "coordinates" /\ out.rank = 1
  /\ out.coord = <<-3, 0, 1,  -1, 0, 1,  -3, 1, 1,  -1, 1, 1,
                   -3, 0, 3,  -1, 0, 3,  -3, 1, 3,  -1, 1, 3>>

\* C13: in every state (any scale, offset, partition, rotation on or off)
\* the interleaved coordinates(coord) and the separated coordinates(x, y, z)
\* describe the same points: x, y and z have node_count_proc() entries each
\* and coord[3k], coord[3k+1], coord[3k+2] equal x[k], y[k], z[k].
C13_CoordinateVariantsAgree ==
  AllOk =>
    \A r \in Ranks :
      LET g == mesh[r]
          co == coordinates(g)
          s == coordinates_xyz(g)
          count == node_count_proc(g)
      IN /\ Len(s.x) = count /\ Len(s.y) = count /\ Len(s.z) = count
         /\ Len(co) = 3 * count
         /\ \A k \in 0..(count - 1) :
              Triple(co, k) = <<s.x[k + 1], s.y[k + 1], s.z[k + 1]>>

C13_Witness ==
  /\ AllOk /\ NumRanks = 2
  /\ mesh[1].numX = 1 /\ mesh[1].numY = 1
  /\ mesh[1].myStartZ = 1 /\ mesh[1].myNumZ = 1
  /\ mesh[1].doRotation
  /\ mesh[1].rotmat = <<<<0, 1, 0>>, <<-1, 0, 0>>, <<0, 0, 1>>>>
  /\ mesh[1].sclX = 2 /\ mesh[1].offY = -3
  /\ out.op = "coordinates_xyz" /\ out.rank = 1
  /\ coordinates(mesh[1]) =
       Concat([k \in 1..Len(out.x) |-> <<out.x[k], out.y[k], out.z[k]>>])
  /\ \E k \in 1..Len(out.x) : out.x[k] # out.y[k]

\* The axis strings set_rotation accepts.
ValidAxes == {a \in AxisTokens : AxisIndexes(a) # <<>>}

\* C14: set_rotation(axis, 90) followed by set_rotation(axis, -90) about the
\* same axis (x, y or z, either case) leaves the accumulated rotation matrix
\* as it was before the two calls, the identity on a mesh that was never
\* rotated, and coordinates() returns the same values as before the two
\* calls; a call with -90 that finds the matrix left by a single +90 call
\* about the same axis leaves the identity.
C14_RotateAndBack ==
  AllOk =>
    \A r \in Ranks :
      LET g == mesh[r]
      IN /\ \A axis \in ValidAxes :
              LET h == set_rotation(set_rotation(g, axis, 90), axis, -90)
              IN /\ h.rotmat = g.rotmat
                 /\ (~g.doRotation => h.rotmat = Identity3)
                 /\ h.doRotation
                 /\ coordinates(h) = coordinates(g)
         /\ (/\ out.op = "set_rotation" /\ out.axis \in ValidAxes /\ out.angle = -90
             /\ out.rotmat = set_rotation(MemberInit(1, 1, 1, 1, 1, 0), out.axis, 90).rotmat)
              => g.rotmat = Identity3

C14_Witness ==
  /\ AllOk /\ NumRanks = 2
  /\ out.op = "set_rotation" /\ out.axis = <<"z">> /\ out.angle = -90
  /\ out.doRotation
  /\ out.rotmat = <<<<0, 1, 0>>, <<-1, 0, 0>>, <<0, 0, 1>>>>
  /\ mesh[1].rotmat = Identity3 /\ mesh[1].doRotation
  /\ mesh[1].numX = 2 /\ mesh[1].myStartZ = 1
  /\ coordinates(mesh[1]) = coordinates([mesh[1] EXCEPT !.doRotation = FALSE])

\* C15: set_rotation(axis, 0) with any valid axis letter leaves the
\* accumulated rotation matrix unchanged and enables rotation, and
\* coordinates() returns the same values as before the call.
C15_ZeroAngle ==
  AllOk =>
    \A r \in Ranks :
      LET g == mesh[r]
      IN /\ \A axis \in ValidAxes :
              LET h == set_rotation(g, axis, 0)
              IN /\ h.rotmat = g.rotmat
                 /\ h.doRotation
                 /\ coordinates(h) = coordinates(g)
         /\ (out.op = "set_rotation" /\ out.axis \in ValidAxes /\ out.angle = 0)
              => /\ g.rotmat = out.rotmat
                 /\ g.doRotation
                 /\ coordinates(g) =
                      coordinates([g EXCEPT !.doRotation = out.doRotation])

C15_Witness ==
  /\ AllOk /\ NumRanks = 2
  /\ out.op = "set_rotation" /\ out.axis = <<"Y">> /\ out.angle = 0
  /\ ~out.doRotation
  /\ mesh[1].doRotation /\ mesh[1].rotmat = Identity3
  /\ mesh[1].numX = 2 /\ mesh[1].myStartZ = 1
  /\ coordinates(mesh[1]) = coordinates([mesh[1] EXCEPT !.doRotation = FALSE])

\* C16: a set_rotation call with an axis string other than x, X, y, Y, z, Z
\* is non-fatal and leaves the whole rotation state as it was before the
\* call: the rotation matrix and the doRotation flag.
C16_InvalidAxisNoChange ==
  (AllOk /\ out.op = "set_rotation" /\ out.axis \notin ValidAxes) =>
    \A r \in Ranks :
      /\ mesh[r].rotmat = out.rotmat
      /\ mesh[r].doRotation = out.doRotation

\* C17: every mesh whose construction completes has numZ >= processorCount,
\* also when a zdecomp option has redefined numZ as the sum of its tokens; a
\* configuration with numZ < processorCount ends in the fatal precondition
\* failure and yields no mesh.
C17_NumZAtLeastProcs ==
  Built => \A r \in Ranks :
             mesh[r].status = "ok" => mesh[r].numZ >= mesh[r].processorCount

\* A token that spells a positive integer.
IsPositiveInteger(t) ==
  /\ Len(t) >= 1
  /\ \A k \in 1..Len(t) : IsDigit(t[k])
  /\ strtol(t) > 0

\* C18: a specification string whose first group has three tokens one of
\* which is not a positive integer (zero or non-numeric) fails fatally, and
\* no constructed mesh has numX <= 0, numY <= 0 or numZ <= 0.
C18_PositiveIntervals ==
  Built =>
    \A r \in Ranks :
      /\ mesh[r].status = "ok" =>
           (mesh[r].numX > 0 /\ mesh[r].numY > 0 /\ mesh[r].numZ > 0)
      /\ (/\ Len(args.parameters.intervals) = 3
          /\ \E k \in 1..3 : ~IsPositiveInteger(args.parameters.intervals[k]))
           => mesh[r].status = "aborted"

\* The options of the constructor arguments.
ArgOptions == args.parameters.options

\* The token count that the branch of an option asserts does not hold.
WrongTokenCount(option) ==
  \/ option.key \in {"scale", "offset"} /\ Len(option.arg) # 3
  \/ option.key = "bbox" /\ Len(option.arg) # 6
  \/ option.key = "zdecomp" /\ Len(option.arg) # args.proc_count
  \/ option.key = "rotate" /\ Len(option.arg) % 2 # 0

\* C19: a wrong token count aborts construction: an interval group that does
\* not have exactly three tokens, a scale or offset option without exactly
\* three, a bbox option without exactly six, a zdecomp option whose token
\* count differs from processorCount, a rotate option with an odd number of
\* tokens; each yields no mesh on any rank, whatever options precede or follow
\* the malformed one.
C19_WrongTokenCountAborts ==
  (/\ Built
   /\ \/ Len(args.parameters.intervals) # 3
      \/ \E k \in 1..Len(ArgOptions) : WrongTokenCount(ArgOptions[k]))
    => \A r \in Ranks : mesh[r].status = "aborted"

C19_Witness ==
  /\ Built /\ NumRanks = 2
  /\ Len(args.parameters.intervals) = 3
  /\ Len(ArgOptions) = 2
  /\ ArgOptions[1].key = "scale" /\ ~WrongTokenCount(ArgOptions[1])
  /\ ArgOptions[2].key = "bbox" /\ Len(ArgOptions[2].arg) = 5
  /\ mesh[0].status = "aborted" /\ mesh[1].status = "aborted"
  /\ mesh[0].sclX = 2

\* The face a shell character names.
ShellFace(c) ==
  CASE c = "x" -> "MX" [] c = "X" -> "PX" [] c = "y" -> "MY"
    [] c = "Y" -> "PY" [] c = "z" -> "MZ" [] c = "Z" -> "PZ"

IsShellFaceChar(c) == c \in {"x", "X", "y", "Y", "z", "Z"}

\* The faces named by the recognized characters of all shell options, in
\* the order of the options and of the characters inside each.
NamedFaces ==
  Concat([k \in 1..Len(ArgOptions) |->
    IF ArgOptions[k].key = "shell"
    THEN LET cs == SelectSeq(ArgOptions[k].arg[1], IsShellFaceChar)
         IN [j \in 1..Len(cs) |-> ShellFace(cs[j])]
    ELSE <<>>])

\* C20: shell:<chars> appends one shell block per recognized character
\* (x -> MX, X -> PX, y -> MY, Y -> PY, z -> MZ, Z -> PZ) from left to right,
\* skips an unrecognized character without aborting and keeps duplicates, so
\* block_count() is 1 plus the number of recognized characters over all shell
\* options; "2x2x2|shell:xX" gives block_count() = 3.
C20_ShellBlocks ==
  /\ AllOk =>
       \A r \in Ranks :
         /\ mesh[r].shellBlocks = NamedFaces
         /\ block_count(mesh[r]) = 1 + Len(NamedFaces)
  /\ (/\ Built
      /\ Len(args.parameters.intervals) = 3
      /\ strtol(args.parameters.intervals[3]) >= args.proc_count
      /\ \A k \in 1..Len(ArgOptions) : ArgOptions[k].key = "shell")
       => AllOk

C20_Witness ==
  /\ AllOk /\ NumRanks = 1
  /\ args.parameters.intervals = <<Tok(2), Tok(2), Tok(2)>>
  /\ ArgOptions = <<[key |-> "shell", arg |-> <<<<"x", "X">>>>]>>
  /\ mesh[0].shellBlocks = <<"MX", "PX">>
  /\ block_count(mesh[0]) = 3

\* A group that only prints: help, show, or a key parse_options does not know.
PrintsOnly(option) == option.key \in {"help", "show"} \/ option.key \notin OptionKeys

ChangesState(option) == ~PrintsOnly(option)

\* The constructor arguments without the groups that only print.
ArgsWithoutPrinting ==
  [args EXCEPT !.parameters.options = SelectSeq(@, ChangesState)]

\* C21: a group with an unrecognized key, and the help and show options,
\* change no mesh state: on every rank the constructed instance (interval
\* counts, partition, scale, offset, shell blocks, rotation, and whether
\* construction completed) is the one built from the same string with those
\* groups absent, so the remaining groups are still processed.
C21_PrintingOptionsNoEffect ==
  Built => mesh = Build(ArgsWithoutPrinting)

C21_Witness ==
  /\ AllOk /\ NumRanks = 2
  /\ Len(ArgOptions) = 2
  /\ ArgOptions[1].key = "bogus"
  /\ ArgOptions[2] = [key |-> "zdecomp", arg |-> <<Tok(1), Tok(2)>>]
  /\ mesh[1].myStartZ = 1 /\ mesh[1].myNumZ = 2 /\ mesh[1].numZ = 3

\* C22: immediately after set_bbox(xmin, ymin, zmin, xmax, ymax, zmax) with
\* no rotation the mesh spans the box: the node with lattice index (0, 0, 0),
\* the first node of rank 0, is at (xmin, ymin, zmin) and the node with
\* lattice index (numX, numY, numZ), the last node of the last rank, is at
\* (xmax, ymax, zmax), for ranges the current interval counts divide.
C22_BboxSpansBox ==
  (AllOk /\ out.op = "set_bbox") =>
    LET first == mesh[0]
        last == mesh[NumRanks - 1]
    IN /\ ~first.doRotation /\ ~last.doRotation
       /\ first.myStartZ = 0
       /\ last.myStartZ + last.myNumZ = last.numZ
       /\ Triple(coordinates(first), 0) = out.min
       /\ Triple(coordinates(last), node_count_proc(last) - 1) = out.max

C22_Witness ==
  /\ AllOk /\ NumRanks = 2
  /\ out.op = "set_bbox" /\ out.min = <<-3, 0, -3>> /\ out.max = <<9, 12, 12>>
  /\ mesh[1].numX = 2 /\ mesh[1].numY = 2 /\ mesh[1].numZ = 3
  /\ mesh[1].sclX = 6 /\ mesh[1].sclY = 6 /\ mesh[1].sclZ = 5
  /\ mesh[1].myStartZ = 2 /\ mesh[1].myNumZ = 1

(***************************************************************************)
(* element_surface_map calls.                                              *)
(***************************************************************************)
\* What a call whose writes leave the vector can do: the writes land in
\* memory the vector does not own, after which the call either returns with
\* the vector's own entries as written, or the process dies.
SurfaceOutcomes(res) == IF res.overrun THEN {"returned", "crashed"} ELSE {"returned"}

CallElementSurfaceMap ==
  /\ \E r \in Ranks :
       /\ mesh[r].status = "ok"
       /\ \E loc \in ShellLocation :
            LET res == element_surface_map(mesh[r], loc)
            IN \E oc \in SurfaceOutcomes(res) :
                 out' = [op |-> "element_surface_map", rank |-> r, loc |-> loc,
                         outcome |-> oc, size |-> res.size,
                         writes |-> res.writes, overrun |-> res.overrun,
                         map |-> IF oc = "returned" THEN res.map ELSE <<>>]
  /\ UNCHANGED <<mesh, args>>

NextSurf ==
  \/ ConstructPlain
  \/ CallElementSurfaceMap

SpecSurf == Init /\ [][NextSurf]_vars

\* The global IDs of the hex elements of the slab of g.
SlabElements(g) ==
  (g.myStartZ * g.numX * g.numY + 1)..((g.myStartZ + g.myNumZ) * g.numX * g.numY)

\* C23: on a mesh with positive interval counts, a call of
\* element_surface_map(loc) produces exactly shell_element_count_proc(loc)
\* pairs (element ID, face), writes only inside the 2*count entries it
\* allocated, and every element ID it stores is one of the hex elements of
\* the calling rank's slab.
C23_SurfaceMapWithinSlab ==
  (AllOk /\ out.op = "element_surface_map"
     /\ mesh[0].numX > 0 /\ mesh[0].numY > 0
     /\ \A r \in Ranks : mesh[r].myNumZ > 0) =>
     LET g == mesh[out.rank]
         count == shell_element_count_proc(g, out.loc)
     IN /\ out.outcome = "returned"
        /\ ~out.overrun
        /\ out.writes = count
        /\ Len(out.map) = 2 * count
        /\ \A k \in 1..count : out.map[2 * k - 1] \in SlabElements(g)

\* The numbers that strtod reads from the tokens of an option.
OptionNumbers(option) == [j \in 1..Len(option.arg) |-> strtod(option.arg[j])]

\* The Z coordinates of the first node of rank 0 and of the last node of the
\* last rank: the Z extent of an unrotated mesh with positive scale.
ZExtent ==
  LET last == mesh[NumRanks - 1]
  IN <<Triple(coordinates(mesh[0]), 0)[3],
       Triple(coordinates(last), node_count_proc(last) - 1)[3]>>

\* C24: option groups are applied left to right, each on the state the
\* previous ones left, and bbox uses the interval counts current when it is
\* applied.  "zdecomp" then "bbox" makes the Z extent exactly [zmin, zmax];
\* "bbox" then a "zdecomp" whose sum differs from the original K keeps the
\* scale computed from the old numZ, so the Z extent is not [zmin, zmax]; a
\* "scale" or "offset" after "bbox" overrides the bbox-derived value and
\* leaves the other one as bbox set it.
C24_OptionsLeftToRight ==
  (AllOk /\ Len(ArgOptions) = 2 /\ ArgOptions[1].key \in {"zdecomp", "bbox"}) =>
     LET o1 == ArgOptions[1]
         o2 == ArgOptions[2]
         n1 == OptionNumbers(o1)
         n2 == OptionNumbers(o2)
     IN /\ (o1.key = "zdecomp" /\ o2.key = "bbox") =>
             ZExtent = <<n2[3], n2[6]>>
        /\ (o1.key = "bbox" /\ o2.key = "zdecomp" /\ SumSeq(n2) # ArgNumZ) =>
             /\ \A r \in Ranks :
                  /\ mesh[r].numZ = SumSeq(n2)
                  /\ mesh[r].sclZ * ArgNumZ = n1[6] - n1[3]
             /\ ZExtent # <<n1[3], n1[6]>>
        /\ (o1.key = "bbox" /\ o2.key = "scale") =>
             \A r \in Ranks :
               /\ <<mesh[r].sclX, mesh[r].sclY, mesh[r].sclZ>> = n2
               /\ <<mesh[r].offX, mesh[r].offY, mesh[r].offZ>> = <<n1[1], n1[2], n1[3]>>
        /\ (o1.key = "bbox" /\ o2.key = "offset") =>
             \A r \in Ranks :
               /\ <<mesh[r].offX, mesh[r].offY, mesh[r].offZ>> = n2
               /\ mesh[r].sclZ * mesh[r].numZ = n1[6] - n1[3]

\* Two ranks built from "2x2x2|bbox:0,0,0,12,12,12|zdecomp:1,2": the scale 6
\* of two layers stays, three layers reach Z = 18.
C24_Witness ==
  /\ AllOk /\ NumRanks = 2 /\ Len(ArgOptions) = 2
  /\ ArgOptions[1].key = "bbox" /\ ArgOptions[2].key = "zdecomp"
  /\ ArgNumZ = 2 /\ mesh[1].numZ = 3 /\ mesh[1].sclZ = 6
  /\ ZExtent = <<0, 18>>

\* The right-handed rotation of the point p by angle degrees about a
\* coordinate axis, written out per axis.
AxisTurn(axis, angle, p) ==
  LET c == CosDeg(angle)
      s == SinDeg(angle)
  IN CASE axis \in {<<"x">>, <<"X">>} ->
            <<p[1], p[2] * c - p[3] * s, p[2] * s + p[3] * c>>
       [] axis \in {<<"y">>, <<"Y">>} ->
            <<p[1] * c + p[3] * s, p[2], p[3] * c - p[1] * s>>
       [] axis \in {<<"z">>, <<"Z">>} ->
            <<p[1] * c - p[2] * s, p[1] * s + p[2] * c, p[3]>>

\* The instance as it was before the set_rotation call that out records.
BeforeRotation(g) == [g EXCEPT !.rotmat = out.rotmat, !.doRotation = out.doRotation]

Nodes(g) == 0..(node_count_proc(g) - 1)

\* C25: every set_rotation call turns the coordinates that coordinates()
\* returned before it by its own rotation, so a sequence of calls applies
\* rotation 1 first, then rotation 2, ..., then rotation n to the unrotated
\* coordinate (out = in.B1.B2...Bn); x,90 then z,90 differs from z,90 then
\* x,90, and each is the turn about the first axis followed by the turn
\* about the second.
C25_RotationsComposeInOrder ==
  AllOk =>
    \A r \in Ranks :
      LET g == mesh[r]
      IN /\ (out.op = "set_rotation" /\ out.axis \in ValidAxes) =>
              LET before == coordinates(BeforeRotation(g))
                  after == coordinates(g)
              IN \A k \in Nodes(g) :
                   Triple(after, k) = AxisTurn(out.axis, out.angle, Triple(before, k))
         /\ ~g.doRotation =>
              LET in == coordinates(g)
                  xz == coordinates(set_rotation(set_rotation(g, <<"x">>, 90), <<"z">>, 90))
                  zx == coordinates(set_rotation(set_rotation(g, <<"z">>, 90), <<"x">>, 90))
              IN /\ \A k \in Nodes(g) :
                      /\ Triple(xz, k) =
                           AxisTurn(<<"z">>, 90, AxisTurn(<<"x">>, 90, Triple(in, k)))
                      /\ Triple(zx, k) =
                           AxisTurn(<<"x">>, 90, AxisTurn(<<"z">>, 90, Triple(in, k)))
                 /\ (\E k \in Nodes(g) : Triple(in, k) # <<0, 0, 0>>) => xz # zx

\* set_rotation("z", 90) on two ranks that had been turned by x,90: the
\* accumulated matrix takes (x, y, z) to (z, x, y).
C25_Witness ==
  /\ AllOk /\ NumRanks = 2
  /\ out.op = "set_rotation" /\ out.axis = <<"z">> /\ out.angle = 90
  /\ out.doRotation
  /\ out.rotmat = <<<<1, 0, 0>>, <<0, 0, 1>>, <<0, -1, 0>>>>
  /\ mesh[1].rotmat = <<<<0, 1, 0>>, <<0, 0, 1>>, <<1, 0, 0>>>>
  /\ mesh[1].numX = 2 /\ mesh[1].myStartZ = 1
  /\ Triple(coordinates(mesh[1]), 1) = <<1, 1, 0>>

\* The upper-case spelling of a lower-case axis letter.
UpperAxis(axis) ==
  CASE axis = <<"x">> -> <<"X">> [] axis = <<"y">> -> <<"Y">> [] axis = <<"z">> -> <<"Z">>

\* The quarter turns that the claim lists, one per axis.
QuarterTurn(axis, p) ==
  CASE axis \in {<<"x">>, <<"X">>} -> <<p[1], 0 - p[3], p[2]>>
    [] axis \in {<<"y">>, <<"Y">>} -> <<p[3], p[2], 0 - p[1]>>
    [] axis \in {<<"z">>, <<"Z">>} -> <<0 - p[2], p[1], p[3]>>

\* C26: starting from the identity, a single set_rotation by +90 degrees is
\* the right-handed quarter turn about the named axis and leaves that axis'
\* coordinate fixed: about z (x,y,z) becomes (-y,x,z), about x it becomes
\* (x,-z,y), about y it becomes (z,y,-x); upper- and lower-case axis letters
\* behave identically, and all nine entries of the elementary matrix are
\* defined.
C26_QuarterTurns ==
  AllOk =>
    \A r \in Ranks :
      LET g == mesh[r]
      IN /\ (/\ out.op = "set_rotation" /\ out.axis \in ValidAxes
             /\ out.angle = 90 /\ out.rotmat = Identity3) =>
              LET in == coordinates([g EXCEPT !.doRotation = FALSE])
                  turned == coordinates(g)
              IN \A k \in Nodes(g) :
                   Triple(turned, k) = QuarterTurn(out.axis, Triple(in, k))
         /\ \A axis \in {<<"x">>, <<"y">>, <<"z">>}, angle \in AngleVals :
              /\ set_rotation(g, UpperAxis(axis), angle) = set_rotation(g, axis, angle)
              /\ LET by == ElementaryRotation(AxisIndexes(axis), CosDeg(angle), SinDeg(angle))
                 IN /\ DOMAIN by = 1..3
                    /\ \A i \in 1..3 : DOMAIN by[i] = 1..3 /\ \A j \in 1..3 : by[i][j] \in -1..1

\* set_rotation("Y", 90) on two unrotated ranks: the node at (1, 0, 1) of
\* rank 1 goes to (1, 0, -1).
C26_Witness ==
  /\ AllOk /\ NumRanks = 2
  /\ out.op = "set_rotation" /\ out.axis = <<"Y">> /\ out.angle = 90
  /\ ~out.doRotation /\ out.rotmat = Identity3
  /\ mesh[1].numX = 2 /\ mesh[1].myStartZ = 1
  /\ Triple(coordinates([mesh[1] EXCEPT !.doRotation = FALSE]), 1) = <<1, 0, 1>>
  /\ Triple(coordinates(mesh[1]), 1) = <<1, 0, -1>>

\* R . R^T and the determinant of a 3x3 matrix.
TimesTranspose(R) ==
  [i \in 1..3 |-> [j \in 1..3 |->
     R[i][1] * R[j][1] + R[i][2] * R[j][2] + R[i][3] * R[j][3]]]

Det3(R) ==
  R[1][1] * (R[2][2] * R[3][3] - R[2][3] * R[3][2])
    - R[1][2] * (R[2][1] * R[3][3] - R[2][3] * R[3][1])
    + R[1][3] * (R[2][1] * R[3][2] - R[2][2] * R[3][1])

\* C27: after construction and after any sequence of set_rotation calls,
\* with valid or invalid axes and angles that are multiples of 90 degrees,
\* the accumulated rotation matrix is orthonormal with determinant +1
\* (R.R^T = I): it starts as the identity and never becomes a reflection, a
\* scaling or a singular matrix.
C27_RotmatIsRotation ==
  AllOk =>
    \A r \in Ranks :
      /\ TimesTranspose(mesh[r].rotmat) = Identity3
      /\ Det3(mesh[r].rotmat) = 1
      /\ (~mesh[r].doRotation => mesh[r].rotmat = Identity3)

\* A call with the invalid axis "q" on ranks whose matrix takes (x, y, z) to
\* (z, x, y).
C27_Witness ==
  /\ AllOk /\ NumRanks = 2
  /\ out.op = "set_rotation" /\ out.axis = <<"q">> /\ out.angle = 180
  /\ out.rotmat = <<<<0, 1, 0>>, <<0, 0, 1>>, <<1, 0, 0>>>>
  /\ mesh[1].rotmat = out.rotmat /\ mesh[1].doRotation

\* The quads a and b list the same nodes in the same cyclic order.
CyclicRotation(a, b) ==
  \E s \in 0..3 : \A n \in 1..4 : a[n] = b[((n - 1 + s) % 4) + 1]

\* The lattice position (x, y, z) of node ID n of a single-processor mesh.
LatticePosition(g, n) ==
  LET nx1 == g.numX + 1
      xp1yp1 == (g.numX + 1) * (g.numY + 1)
  IN <<(n - 1) % nx1, ((n - 1) % xp1yp1) \div nx1, (n - 1) \div xp1yp1>>

\* Node n lies on the boundary plane of the face location loc.
OnBoundary(g, loc, n) ==
  LET pos == LatticePosition(g, n)
  IN CASE loc = "MX" -> pos[1] = 0
       [] loc = "PX" -> pos[1] = g.numX
       [] loc = "MY" -> pos[2] = 0
       [] loc = "PY" -> pos[2] = g.numY
       [] loc = "MZ" -> pos[3] = 0
       [] loc = "PZ" -> pos[3] = g.numZ

\* C28: in a single-processor mesh with positive interval counts, for each
\* of the six face locations and each index k < shell_element_count(loc): if
\* (e, f) is the k-th pair of element_surface_map(loc), the four nodes of hex
\* element e that faceNodes[f] selects from connectivity(1) all lie on the
\* boundary plane of loc and are, up to a cyclic rotation (same winding),
\* the four nodes of the k-th quad in the connectivity of a shell block
\* declared at loc.
C28_SurfaceMapMatchesShells ==
  (AllOk /\ NumRanks = 1 /\ mesh[0].numZ > 0 /\ out.op = "element_surface_map") =>
     LET g == mesh[0]
         loc == out.loc
         count == shell_element_count(g, loc)
         hex == connectivity(g, 1)
         h == add_shell_block(g, loc)
         shell == connectivity(h, block_count(h))
     IN /\ out.outcome = "returned"
        /\ Len(out.map) = 2 * count
        /\ Len(shell) = 4 * count
        /\ \A k \in 0..(count - 1) :
             LET e == out.map[2 * k + 1]
                 f == out.map[2 * k + 2]
                 face == [n \in 1..4 |-> hex[8 * (e - 1) + faceNodes[f + 1][n]]]
                 quad == [n \in 1..4 |-> shell[4 * k + n]]
             IN /\ e \in 1..element_count_proc_block(g, 1)
                /\ f \in 0..5
                /\ \A n \in 1..4 : OnBoundary(g, loc, face[n])
                /\ CyclicRotation(face, quad)

\* element_surface_map(PY) on the single-processor 2x2x3 mesh: six pairs,
\* the last one the face 2 of element 12.
C28_Witness ==
  /\ AllOk /\ NumRanks = 1
  /\ mesh[0].numX = 2 /\ mesh[0].numY = 2 /\ mesh[0].numZ = 3
  /\ out.op = "element_surface_map" /\ out.loc = "PY" /\ out.outcome = "returned"
  /\ Len(out.map) = 12 /\ out.map[11] = 12 /\ out.map[12] = 2

\* The shell blocks locs[i..] added one after the other.
RECURSIVE WithShells(_, _, _)
WithShells(g, locs, i) ==
  IF i > Len(locs) THEN g ELSE WithShells(add_shell_block(g, locs[i]), locs, i + 1)

\* The single-processor mesh with the interval counts and shell blocks of g,
\* built from "numX x numY x 1|zdecomp:numZ" so that numZ = 0 is covered.
SerialMesh(g) ==
  WithShells(
    GeneratedMeshStr(
      [intervals |-> <<Tok(g.numX), Tok(g.numY), Tok(1)>>,
       options |-> <<[key |-> "zdecomp", arg |-> <<Tok(g.numZ)>>]>>], 1, 0),
    g.shellBlocks, 1)

\* The elements of block b that g holds: the first element_count_proc(b)
\* elements of connectivity(b), as pairs of the global element ID from
\* element_map(b) and the global node IDs from node_map().
LabelledElements(g, b) ==
  LET width == IF b = 1 THEN 8 ELSE 4
      connect == connectivity(g, b)
      nodes == node_map(g)
      ids == element_map_block(g, b)
  IN {<<ids[k], [n \in 1..width |-> nodes[connect[width * (k - 1) + n]]]>> :
        k \in 1..element_count_proc_block(g, b)}

\* C29: the decomposed mesh is the serial mesh.  For any processorCount
\* (uniform or zdecomp partition) and any shell blocks, the elements of every
\* block, taken on every rank from the first element_count_proc(b) elements
\* of connectivity(b), translated through node_map() and labelled with
\* element_map(b), give in their union over the ranks, for every global
\* element ID, exactly the node list that the single-processor mesh with the
\* same numX, numY, numZ and shell blocks gives for that ID.
C29_DecomposedIsSerial ==
  AllOk =>
    LET serial == SerialMesh(mesh[0])
    IN /\ serial.status = "ok"
       /\ \A b \in 1..block_count(mesh[0]) :
            /\ UNION {LabelledElements(mesh[r], b) : r \in Ranks}
                 = LabelledElements(serial, b)
            /\ Cardinality(LabelledElements(serial, b)) = element_count_block(serial, b)

\* Three ranks with layers 1, 0, 2 and shell blocks at PX and PZ; the
\* connectivity of the PZ block was asked of the last rank.
C29_Witness ==
  /\ AllOk /\ NumRanks = 3
  /\ mesh[0].myNumZ = 1 /\ mesh[1].myNumZ = 0 /\ mesh[2].myNumZ = 2
  /\ mesh[2].numX = 2 /\ mesh[2].numY = 2
  /\ mesh[2].shellBlocks = <<"PX", "PZ">>
  /\ out.op = "connectivity" /\ out.rank = 2 /\ out.block = 3
  /\ <<20, <<29, 30, 33, 32>>>> \in LabelledElements(mesh[2], 3)

\* The global node IDs that rank p lists in node_communication_map paired
\* with rank q, and the global node IDs of rank p's node_map.
SharedWith(p, q) ==
  LET cm == node_communication_map(mesh[p])
  IN {cm.map[k] : k \in {l \in 1..Len(cm.map) : cm.proc[l] = q}}

NodeIds(p) ==
  LET map == node_map(mesh[p])
  IN {map[k] : k \in 1..Len(map)}

====
